---- MODULE Spec2Model ----
(***************************************************************************)
(* Scanify: the scan-effect pipeline (src/effects.py) as a state machine.  *)
(*                                                                         *)
(* A raster is a record [w, h, px]: its width, its height and a sample of  *)
(* its pixels (px is a sequence of <<r, g, b>> triples).  Intensities are  *)
(* integers in thousandths (0.01 is 10, 1.0 is 1000).  One render is a run *)
(* of apply_scan_effects from its call to its return; the program counter  *)
(* pc names the statement of apply_scan_effects that runs next.  The       *)
(* EffectConfig object is shared with the UI thread, which can toggle the  *)
(* black-and-white switch at any time.                                     *)
(***************************************************************************)
EXTENDS Integers, Sequences, FiniteSets, TLC

VARIABLES
    config,        \* the shared EffectConfig object (src/config.py:9)
    HAS_OPENCV,    \* whether cv2 was importable (src/effects.py:8-12)
    pc,            \* statement of apply_scan_effects to run next
    arg,           \* the raster apply_scan_effects was called with
    image,         \* local `image` of apply_scan_effects
    width,         \* local `width`  (effects.py:45, 55)
    height,        \* local `height` (effects.py:45, 55)
    scale_factor,  \* local `scale_factor`: [num, den], 1.0 is [1, 1]
    ran,           \* history: stage functions called so far in this render
    bw_at_call,    \* history: config.black_and_white when the render began
    toggles,       \* number of B&W switch toggles so far
    pdf_files,         \* PDFProcessor.pdf_files (src/pdf_processor.py:19)
    button_state,      \* state option of the six buttons of _set_ui_state
    is_processing,     \* PDF2ScanApp.is_processing (src/pdf2scan.py:73)
    after_queue,       \* callbacks posted with self.after(0, ...), in order
    preview_thread,    \* position of every preview_thread (pdf2scan.py:497)
    conversion_thread, \* locals and position of conversion_thread (pdf2scan.py:624)
    reports,           \* history: progress_callback calls of the convert_pdf in progress
    processed,         \* history: page indices that convert_pdf has put in the output
    selected_indices,  \* FileQueueList.selected_indices (src/ui_components.py:22)
    run,               \* history of the conversion run in progress: the queue when it began, the documents it took
    on_disk,           \* the paths os.path.exists answers True for
    returned,          \* the value the last call returned, or that it raised
    held,              \* the list a caller got from get_queue
    frame,             \* the locals and the position of the call in progress
    preview_window     \* the fields of the PreviewWindow (src/preview_window.py:22-30)

\* the state of the application around the pipeline
\* what the calls of PDFProcessor, _compare_versions and PreviewWindow work on
libvars == <<on_disk, returned, held, frame, preview_window>>

appvars == <<pdf_files, button_state, is_processing, after_queue, preview_thread,
             conversion_thread, reports, processed, selected_indices, run, libvars>>

\* the state of one run of apply_scan_effects
renderVars == <<config, HAS_OPENCV, pc, arg, image, width, height, scale_factor,
                ran, bw_at_call, toggles>>

vars == <<config, HAS_OPENCV, pc, arg, image, width, height, scale_factor,
          ran, bw_at_call, toggles, pdf_files, button_state, is_processing,
          after_queue, preview_thread, conversion_thread, reports, processed,
          selected_indices, run, on_disk, returned, held, frame, preview_window>>

----------------------------------------------------------------------------
(* Bounds of the model *)

\* pixels in the sample carried for every raster
NPix == 3
\* B&W switch toggles the UI thread performs
MaxToggles == 1
\* creases that may cross one pixel in the wrinkle mask
MaxCreaseHits == 2
\* preview threads that can exist at a time
MaxPreviews == 2
\* pages of the longest document
MaxPages == 2
\* posted callbacks that may wait while the UI thread takes another click
MaxPending == 2
\* pixels of the grey rasters binarization is applied to on its own
NGray == 4
\* pixel samples offered as input rasters
NSamples == 1
\* items a caller may put into a list it got from get_queue
MaxHeld == 2
\* output documents that calls of convert_pdf may add to the output directory
MaxOutputs == 2
\* dot-separated components of the longest version string
MaxParts == 2
\* drag steps by which the image can be panned away from the centre
MaxPan == 2

----------------------------------------------------------------------------
(* Program constants *)

\* max_dim, effects.py:48
max_dim == 2200
\* the epsilon gate 0.01, in thousandths (effects.py:66..90, 164, 204, ...)
Epsilon == 10
\* minimum border, effects.py:424 and 435-438
MinBorder == 5
\* paper_tint, effects.py:20
paper_tint == <<248, 246, 238>>
\* PreviewWindow.min_zoom and max_zoom (0.1 and 5.0) in thousandths,
\* preview_window.py:24-25
min_zoom == 100
max_zoom == 5000

Max(a, b) == IF a >= b THEN a ELSE b
Min(a, b) == IF a <= b THEN a ELSE b
Abs(a) == IF a >= 0 THEN a ELSE -a
Range(seq) == {seq[i] : i \in 1..Len(seq)}

RECURSIVE Pow2(_)
Pow2(n) == IF n = 0 THEN 1 ELSE 2 * Pow2(n - 1)

RECURSIVE ILog2(_)
\* floor(log2(n)) for n >= 1
ILog2(n) == IF n < 2 THEN 0 ELSE 1 + ILog2(n \div 2)

\* a <= b * 2^ex, for any integer ex
LePow(a, b, ex) == IF ex >= 0 THEN a <= b * Pow2(ex) ELSE a * Pow2(-ex) <= b

----------------------------------------------------------------------------
(* IEEE-754 double arithmetic of the scale factor (effects.py:51-53, 95-96)  *)
(*                                                                          *)
(* scale_factor = fl(2200 / M).  With j the least exponent such that        *)
(* 2200 * 2^j >= M, the double is m / 2^(52+j) for the 53-bit integer m     *)
(* nearest to 2200 * 2^(52+j) / M (ties to even).  SfErr(M) is the integer  *)
(* d with  scale_factor * M = 2200 + d / 2^(52+j):  negative when the       *)
(* quotient was rounded down, positive when rounded up, 0 when exact.       *)

RECURSIVE SfExp(_, _)
SfExp(M, j) == IF max_dim * Pow2(j) >= M THEN j ELSE SfExp(M, j + 1)

RECURSIVE DoubleMod(_, _, _)
\* (x * 2^n) mod m
DoubleMod(x, n, m) == IF n = 0 THEN x % m ELSE DoubleMod((2 * x) % m, n - 1, m)

SfErr(M) ==
    LET j   == SfExp(M, 1)
        x   == DoubleMod(max_dim, 52 + j, 2 * M)
        odd == x >= M
        r   == x % M
        up  == (2 * r > M) \/ (2 * r = M /\ odd)
    IN  IF up THEN M - r ELSE -r

\* int(w * scale_factor), effects.py:52-53
\* The exact product w*2200/M is either at least 1/M away from an integer
\* (then truncation is that of the exact product) or an integer N; then the
\* double product is N unless scale_factor was rounded down by more than
\* half a unit in the last place of N, which gives N - 1.
IntMul(w, sf) ==
    IF sf.den = 1 THEN w
    ELSE LET M == sf.den
             d == SfErr(M)
             j == SfExp(M, 1)
             N == (w * max_dim) \div M
             k == ILog2(N)
             pw == IF N = Pow2(k) THEN 1 ELSE 0
         IN  IF (w * max_dim) % M # 0 \/ d >= 0 THEN N
             ELSE IF LePow(w * (-d), M, k + j - 1 - pw) THEN N ELSE N - 1

\* int(W / scale_factor), effects.py:95-96
IntDiv(W, sf) ==
    IF sf.den = 1 \/ W = 0 THEN W
    ELSE LET M == sf.den
             d == SfErr(M)
             j == SfExp(M, 1)
             Y == (W * M) \div max_dim
             k == ILog2(Y)
             pw == IF Y = Pow2(k) THEN 1 ELSE 0
         IN  IF (W * M) % max_dim # 0 \/ d <= 0 THEN Y
             ELSE IF LePow(Y * d, max_dim, k + j - 1 - pw) THEN Y ELSE Y - 1

----------------------------------------------------------------------------
(* Rasters, arrays and pixels *)

\* np.array(image): shape (height, width, 3)
np_array(im) == [rows |-> im.h, cols |-> im.w, px |-> im.px]

\* Image.fromarray with the axes of the shape taken in array order
Image_fromarray_swapped(a) == [w |-> a.rows, h |-> a.cols, px |-> a.px]

\* Image.fromarray(arr): size (shape[1], shape[0])
Image_fromarray(a) == [w |-> a.cols, h |-> a.rows, px |-> a.px]

\* np.clip that bounds the value from below only
np_clip_low_only(x, lo, hi) == IF x < lo THEN lo ELSE x

\* np.clip(x, lo, hi); every stage applies it before .astype(np.uint8)
np_clip(x, lo, hi) == IF x < lo THEN lo ELSE IF x > hi THEN hi ELSE x

\* apply F to every channel c (1 = R, 2 = G, 3 = B) of every sample pixel
MapChannels(px, F(_, _)) ==
    [i \in 1..Len(px) |-> <<F(px[i][1], 1), F(px[i][2], 2), F(px[i][3], 3)>>]

\* Image.resize(size, LANCZOS / BILINEAR) raises ValueError("height and
\* width must be > 0") for an empty target size (effects.py:54, 97)
ResizeRaises(nw, nh) == nw < 1 \/ nh < 1

\* Image.resize: the resampled raster; ring is the over/undershoot of the
\* Lanczos kernel at the sampled pixels, clipped to 8 bits by the library
Image_resize(im, nw, nh, ring) ==
    [w |-> nw, h |-> nh,
     px |-> MapChannels(im.px, LAMBDA v, c : np_clip(v + ring, 0, 255))]

----------------------------------------------------------------------------
(* Tone stages *)

\* apply_paper_color, effects.py:15-26
apply_paper_color(im) ==
    LET img_array == np_array(im)
        result == [img_array EXCEPT !.px = MapChannels(img_array.px,
                     LAMBDA v, c : np_clip((v * 85 + paper_tint[c] * 15) \div 100, 0, 255))]
    IN  Image_fromarray(result)

\* image.convert('L'): ITU-R 601-2 luma, the library's fixed-point form
Luma(p) == (p[1] * 19595 + p[2] * 38470 + p[3] * 7471 + 32768) \div 65536

\* gray.histogram(): 256 bins
Histogram(gray) == [v \in 0..255 |-> Cardinality({i \in 1..Len(gray) : gray[i] = v})]

RECURSIVE SumHist(_, _, _)
\* sum_total over the levels lo..hi, the loop of effects.py:134-135
\* (the range is halved so that the evaluation stays shallow)
SumHist(hist, lo, hi) ==
    IF lo = hi THEN lo * hist[lo]
    ELSE LET mid == (lo + hi) \div 2
         IN  SumHist(hist, lo, mid) + SumHist(hist, mid + 1, hi)

RECURSIVE GCD(_, _)
GCD(a, b) == IF b = 0 THEN a ELSE GCD(b, a % b)

\* whether the double a / b is the exact quotient of the small integers a
\* and b: the reduced denominator is a power of two
ExactQuotient(a, b) ==
    LET r == b \div GCD(a, b)
    IN  r = Pow2(ILog2(r))

\* one iteration of the loop of effects.py:137-155 at level i.  st holds
\* weight_background, sum_foreground, current_max, threshold and whether
\* the loop has hit its break.  between_variance is kept as the exact
\* fraction num/den = (sum_fg*w_f - (sum_total - sum_fg)*w_b)^2 / (w_b*w_f),
\* equal to w_b * w_f * (mean_b - mean_f)^2, with a flag `exact` telling
\* whether the doubles mean_background and mean_foreground are the exact
\* quotients (then the whole expression is computed without rounding).
\* The comparison between_variance > current_max is that of the exact
\* values when they differ (the samples are small: distinct values differ
\* by far more than the rounding errors).  When they are equal and both
\* were computed without rounding, the doubles are equal; when rounding
\* entered either of them, the roundings of the divisions, of the
\* subtraction, of ** 2 and of the product decide the comparison:
\* rounds_up tells whether the later value comes out greater.  At a level
\* with hist[i] = 0 the operands, and so the double, are those of the level
\* before, which current_max is not below.
OtsuStep(hist, total, sum_total, st, i, rounds_up) ==
    IF st.broke THEN st
    ELSE LET wb == st.weight_background + hist[i]
             wf == total - wb
             sf == st.sum_foreground + i * hist[i]
             dd == sf * wf - (sum_total - sf) * wb
             bv == [num |-> dd * dd, den |-> wb * wf,
                    exact |-> ExactQuotient(sf, wb) /\ ExactQuotient(sum_total - sf, wf)]
             cm == st.current_max
             greater ==
                \/ bv.num * cm.den > cm.num * bv.den
                \/ /\ bv.num * cm.den = cm.num * bv.den
                   /\ ~(bv.exact /\ cm.exact)
                   /\ rounds_up
         IN  IF wb = 0 THEN [st EXCEPT !.weight_background = wb]
             ELSE IF wf = 0 THEN [st EXCEPT !.weight_background = wb, !.broke = TRUE]
             ELSE IF hist[i] # 0 /\ greater
               THEN [st EXCEPT !.weight_background = wb, !.sum_foreground = sf,
                               !.current_max = bv, !.threshold = i]
             ELSE [st EXCEPT !.weight_background = wb, !.sum_foreground = sf]

RECURSIVE OtsuLoop(_, _, _, _, _, _, _)
\* the iterations lo..hi of the loop, in increasing order of the level
OtsuLoop(hist, total, sum_total, st, lo, hi, rounds_up) ==
    IF lo = hi THEN OtsuStep(hist, total, sum_total, st, lo, rounds_up)
    ELSE LET mid == (lo + hi) \div 2
             left == OtsuLoop(hist, total, sum_total, st, lo, mid, rounds_up)
         IN  IF left.broke THEN left
             ELSE OtsuLoop(hist, total, sum_total, left, mid + 1, hi, rounds_up)

\* the threshold of effects.py:126-155
OtsuThreshold(gray, rounds_up) ==
    LET hist == Histogram(gray)
        st0 == [weight_background |-> 0, sum_foreground |-> 0,
                current_max |-> [num |-> 0, den |-> 1, exact |-> TRUE],
                threshold |-> 0, broke |-> FALSE]
    IN  OtsuLoop(hist, Len(gray), SumHist(hist, 0, 255), st0, 0, 255, rounds_up).threshold

\* a threshold that blanks the dark pixels and keeps the bright ones as they are
Binarize_soft(x, threshold) == IF x > threshold THEN x ELSE 0

\* gray.point(lambda x: 255 if x > threshold else 0), effects.py:158, and
\* cv2.threshold(..., THRESH_BINARY + THRESH_OTSU), effects.py:113-116
Binarize(x, threshold) == IF x > threshold THEN 255 ELSE 0

\* cv2.fastNlMeansDenoising(binary, None, 10, 7, 21), effects.py:119.
\* The weight of a 7x7 patch at squared distance dist from the reference
\* patch is exp(-dist / (49 * h^2)) with h = 10, and is set to 0 when below
\* 0.001, i.e. when dist > 49 * 100 * ln(1000) = 33848.  Nonzero weights are
\* kept as 1: the result is then the mean of the pixels whose patch is that
\* close to the reference patch.  dist between sample pixels is that of
\* patches differing in the centre pixel only.
NlmWeight(dist) == IF dist > 33848 THEN 0 ELSE 1

fastNlMeansDenoising(gray) ==
    [i \in 1..Len(gray) |->
        LET wt(q) == NlmWeight((gray[i] - gray[q]) * (gray[i] - gray[q]))
            idx == {q \in 1..Len(gray) : wt(q) = 1}
            RECURSIVE SumOver(_)
            SumOver(S) == IF S = {} THEN 0
                          ELSE LET q == CHOOSE q \in S : TRUE
                               IN  gray[q] + SumOver(S \ {q})
        IN  (2 * SumOver(idx) + Cardinality(idx)) \div (2 * Cardinality(idx))]

\* cv2.cvtColor(GRAY2RGB) and Image.convert('RGB') of an 'L' image
GrayToRGB(gray) == [i \in 1..Len(gray) |-> <<gray[i], gray[i], gray[i]>>]

\* apply_black_and_white, effects.py:102-159
apply_black_and_white(im, rounds_up) ==
    LET gray == [i \in 1..Len(im.px) |-> Luma(im.px[i])]
        threshold == OtsuThreshold(gray, rounds_up)
        binary == [i \in 1..Len(gray) |-> Binarize(gray[i], threshold)]
    IN  IF HAS_OPENCV
          THEN LET gray_array == [rows |-> im.h, cols |-> im.w, px |-> gray]
                   denoised == fastNlMeansDenoising(binary)
               IN  Image_fromarray([gray_array EXCEPT !.px = GrayToRGB(denoised)])
          ELSE [w |-> im.w, h |-> im.h, px |-> GrayToRGB(binary)]

----------------------------------------------------------------------------
(* Geometry, shading, texture and noise stages *)

\* apply_warp with no fallback branch: the displaced raster is built whether
\* or not the resampling backend is there
apply_warp_no_fallback(im, intensity, blend) ==
    IF intensity < Epsilon THEN im
    ELSE LET n == Len(im.px)
         IN  [im EXCEPT !.px = [i \in 1..n |->
                  IF blend
                    THEN LET a == im.px[i]
                             b == im.px[(i % n) + 1]
                         IN  <<(a[1] + b[1]) \div 2, (a[2] + b[2]) \div 2, (a[3] + b[3]) \div 2>>
                    ELSE im.px[i]]]

\* apply_warp, effects.py:202-243.  blend: whether the displaced sampling
\* position falls between two source pixels (bilinear interpolation).
apply_warp(im, intensity, blend) ==
    IF intensity < Epsilon THEN im
    ELSE LET img_array == np_array(im)
             grid == [rows |-> im.h, cols |-> im.w]
             n == Len(img_array.px)
             remap == [i \in 1..n |->
                         IF blend
                           THEN LET a == img_array.px[i]
                                    b == img_array.px[(i % n) + 1]
                                IN  <<(a[1] + b[1]) \div 2, (a[2] + b[2]) \div 2, (a[3] + b[3]) \div 2>>
                           ELSE img_array.px[i]]
         IN  IF HAS_OPENCV
               THEN Image_fromarray([rows |-> grid.rows, cols |-> grid.cols, px |-> remap])
               ELSE im

\* apply_lighting, effects.py:162-199.  norm_dist is the normalised distance
\* of the pixel from the light centre, in thousandths; brightness_variation
\* is kept in ten-thousandths.
apply_lighting(im, intensity, norm_dist) ==
    IF intensity < Epsilon THEN im
    ELSE LET img_array == np_array(im)
             lighting == 10000 + (intensity * 25 * (1000 - norm_dist)) \div 10000
                               - (intensity * 15) \div 10
             cast == <<102, 101, 96>>
             result == [img_array EXCEPT !.px = MapChannels(img_array.px,
                          LAMBDA v, c : np_clip((v * lighting * cast[c]) \div 1000000, 0, 255))]
         IN  Image_fromarray(result)

RECURSIVE CreaseMask(_, _)
\* wrinkle_layer at a pixel on the path of `hits` creases: every crease
\* multiplies it by (1 - s) and, at dy = 0, by (1 - s * 1.0 * 0.5)
\* (effects.py:272-277); mask and strength in thousandths
CreaseMask(wrinkle_strength, hits) ==
    IF hits = 0 THEN 1000
    ELSE (((CreaseMask(wrinkle_strength, hits - 1) * (1000 - wrinkle_strength)) \div 1000)
            * (1000 - wrinkle_strength \div 2)) \div 1000

\* apply_wrinkles, effects.py:246-304.  strength is the draw of
\* random.uniform(0.15, 0.3) in thousandths.
apply_wrinkles(im, intensity, strength, hits) ==
    IF intensity < Epsilon THEN im
    ELSE LET img_array == np_array(im)
             wrinkle_strength == (intensity * strength) \div 1000
             wrinkle_layer == CreaseMask(wrinkle_strength, hits)
             result == [img_array EXCEPT !.px = MapChannels(img_array.px,
                          LAMBDA v, c : np_clip((v * wrinkle_layer) \div 1000, 0, 255))]
         IN  Image_fromarray(result)

\* the corner shadow with shadow_strength = intensity * 3
CornerShadow_strong(im, intensity) ==
    LET shadow_strength == intensity * 3
        top  == IF (im.h * 15) \div 100 >= 1 THEN 1000 - (shadow_strength * 7) \div 10 ELSE 1000
        left == IF (im.w * 12) \div 100 >= 1 THEN 1000 - (shadow_strength * 8) \div 10 ELSE 1000
        corner == IF Min(im.w, im.h) \div 6 >= 1 THEN 1000 - (shadow_strength * 15) \div 10 ELSE 1000
    IN  (((top * left) \div 1000) * corner) \div 1000

\* the shadow mask at the corner pixel (0, 0), in thousandths
\* (effects.py:316-351): top band, left band and corner region, where the
\* raster is large enough for them to exist
CornerShadow(im, intensity) ==
    LET shadow_strength == (intensity * 3) \div 10
        top  == IF (im.h * 15) \div 100 >= 1 THEN 1000 - (shadow_strength * 7) \div 10 ELSE 1000
        left == IF (im.w * 12) \div 100 >= 1 THEN 1000 - (shadow_strength * 8) \div 10 ELSE 1000
        corner == IF Min(im.w, im.h) \div 6 >= 1 THEN 1000 - (shadow_strength * 15) \div 10 ELSE 1000
    IN  (((top * left) \div 1000) * corner) \div 1000

\* apply_shadows, effects.py:307-365.  at_corner: the sampled pixels lie in
\* the corner (darkest) or in the interior (mask 1.0).
apply_shadows(im, intensity, tilt, at_corner) ==
    IF intensity < Epsilon THEN im
    ELSE LET img_array == np_array(im)
             shadow == IF at_corner THEN CornerShadow(im, intensity) ELSE 1000
             result == [img_array EXCEPT !.px = MapChannels(img_array.px,
                          LAMBDA v, c : np_clip((v * shadow) \div 1000, 0, 255))]
         IN  Image_fromarray(result)

\* apply_noise, effects.py:368-383.  sigmas: the normal draw in units of
\* the standard deviation intensity * 12.
apply_noise(im, intensity, sigmas) ==
    IF intensity < Epsilon THEN im
    ELSE LET img_array == np_array(im)
             noise == (sigmas * intensity * 12) \div 1000
             noisy == [img_array EXCEPT !.px = MapChannels(img_array.px,
                          LAMBDA v, c : np_clip(v + noise, 0, 255))]
         IN  Image_fromarray(noisy)

\* apply_paper_texture, effects.py:386-414.  grain is the upscaled grain at
\* the sampled pixel after re-centring (grain image value - 128).
apply_paper_texture(im, intensity, grain) ==
    IF intensity < Epsilon THEN im
    ELSE LET img_array == np_array(im)
             grain_img == [w |-> im.w, h |-> im.h]
             grain_rgb == [rows |-> grain_img.h, cols |-> grain_img.w]
             result == [rows |-> grain_rgb.rows, cols |-> grain_rgb.cols,
                        px |-> MapChannels(img_array.px,
                          LAMBDA v, c : np_clip(v + (grain * intensity * 15) \div 10000, 0, 255))]
         IN  Image_fromarray(result)

\* values the re-centred grain takes: the whole range of the clipped 8-bit
\* grain image, or -128 when the half-resolution grain image is empty
\* (width // 2 = 0 or height // 2 = 0, effects.py:395-407)
GrainDraws(im) ==
    IF im.w \div 2 = 0 \/ im.h \div 2 = 0 THEN {-128} ELSE {-128, 127}

----------------------------------------------------------------------------
(* Page-edge / scanner-bed stage *)

\* a border base of a tenth of the smaller dimension
border_base_tenth(im, intensity) == (Min(im.w, im.h) * 100 * intensity) \div 1000000

\* border_base = int(min(width, height) * 0.08 * intensity), effects.py:423
border_base(im, intensity) == (Min(im.w, im.h) * 80 * intensity) \div 1000000

\* the four borders without the floor of effects.py:435-438
Borders_unfloored(im, intensity, tilt, u, jitter) ==
    LET base == border_base(im, intensity)
        border_variation == (base * tilt * u) \div 1000000
    IN  [k \in 1..4 |-> base + jitter[k] * border_variation]

\* the four borders <<top, bottom, left, right>>, effects.py:428-438.
\* u is the draw of random.uniform(0.3, 0.8) in thousandths; jitter[k] in
\* {-1, 1} places the k-th random.randint(-variation, variation) at its
\* lower or at its upper end.
Borders(im, intensity, tilt, u, jitter) ==
    LET base == border_base(im, intensity)
        border_variation == (base * tilt * u) \div 1000000
    IN  [k \in 1..4 |-> Max(MinBorder, base + jitter[k] * border_variation)]

\* Image.alpha_composite of the black shadow overlay with alpha a over an
\* opaque pixel value v (effects.py:543)
AlphaComposite(v, a) == (v * (255 - a) + 127) \div 255

\* a pixel of the synthesised scanner bed, effects.py:451-504: the darkest
\* (dark = TRUE) or the lightest combination of the random draws
BedPixel(b, dark) ==
    LET base_gray == IF dark THEN 140 ELSE 170
        tone == base_gray + (IF dark THEN -8 ELSE 8)
        edge_dist == Max(Max(b[1], b[2]), Max(b[3], b[4]))
        darkening == IF dark THEN (edge_dist * 15) \div 100 ELSE 0
        graded == np_clip(tone - darkening, 100, 255)
        noisy == graded + (IF dark THEN -12 ELSE 12)
        streaked == noisy - (IF dark THEN 6 ELSE 0)
        spotted == IF dark THEN np_clip(streaked - 8, 100, 255) ELSE streaked
        v == np_clip(spotted, 100, 255)
    IN  <<v, v, v>>

\* apply_page_edge, effects.py:415-545.  The returned sample is the page's
\* sample followed by one pixel of the bed; alpha is the shadow overlay's
\* alpha at the sampled pixels.
apply_page_edge(im, intensity, tilt, u, jitter, alpha, dark) ==
    IF intensity < Epsilon THEN im
    ELSE IF border_base(im, intensity) < MinBorder THEN im
    ELSE LET b == Borders(im, intensity, tilt, u, jitter)
             border_top == b[1]
             border_bottom == b[2]
             border_left == b[3]
             border_right == b[4]
             new_width == im.w + border_left + border_right
             new_height == im.h + border_top + border_bottom
             pasted == im.px \o <<BedPixel(b, dark)>>
         IN  [w |-> new_width, h |-> new_height,
              px |-> MapChannels(pasted, LAMBDA v, c : AlphaComposite(v, alpha))]

----------------------------------------------------------------------------
(* Inputs *)

\* EffectConfig(), src/config.py:9-23, intensities in thousandths
DefaultConfig ==
    [dpi |-> 72, jpg_quality |-> 50, lighting |-> 600, tilt_randomness |-> 200,
     wrinkles |-> 150, shadows |-> 50, warp |-> 300, noise |-> 500,
     paper_texture |-> 400, page_edge |-> 20, yellowness |-> 50,
     black_and_white |-> FALSE, blank_metadata |-> TRUE]

\* a configuration with every stage intensity at x and tilt_randomness at t
Uniform(x, t) ==
    [DefaultConfig EXCEPT !.lighting = x, !.wrinkles = x, !.shadows = x, !.warp = x,
                          !.noise = x, !.paper_texture = x, !.page_edge = x,
                          !.tilt_randomness = t]

\* the configurations renders start from: the defaults, everything off,
\* everything at full strength, page edge alone (with and without tilt),
\* and intensities just below, at and just above the epsilon gate
Configs ==
    LET presets == { DefaultConfig,
                     Uniform(0, 0),
                     Uniform(1000, 0),
                     [Uniform(0, 0) EXCEPT !.page_edge = 500],
                     [Uniform(0, 0) EXCEPT !.page_edge = 1000, !.tilt_randomness = 1000],
                     Uniform(5, 0),
                     [Uniform(10, 0) EXCEPT !.wrinkles = 9, !.paper_texture = 9,
                                            !.shadows = 11, !.noise = 11, !.warp = 11] }
    IN  { [c EXCEPT !.black_and_white = b] : c \in presets, b \in BOOLEAN }

Palette == << <<255, 255, 255>>, <<0, 0, 0>>, <<200, 100, 30>>, <<90, 90, 90>>, <<30, 60, 250>> >>

\* the k-th pixel sample: NPix consecutive colours of the palette
Sample(k) == [i \in 1..NPix |-> Palette[((i + k - 2) % Len(Palette)) + 1]]

\* <<width, height>> of the input rasters: degenerate, around the minimum
\* border, ordinary page sizes, the cap and oversized pages
InputSizes ==
    { <<1, 1>>, <<124, 200>>, <<125, 300>>, <<2200, 1700>>,
      <<1000, 2201>>, <<1, 2201>>, <<3000, 4000>>, <<4961, 7016>> }

Inputs == { [w |-> s[1], h |-> s[2], px |-> Sample(k)] : s \in InputSizes, k \in 1..NSamples }

\* draws of the random source, reduced to the ends of their ranges
RingDraws == {-16, 16}
NormDistDraws == {0, 600}
StrengthDraws == {150, 300}
HitDraws == {0, MaxCreaseHits}
SigmaDraws == {-3, 3}
TiltDraws == {300, 800}
JitterDraws == {<<-1, -1, -1, -1>>, <<1, 1, 1, 1>>, <<-1, 1, 1, -1>>}
AlphaDraws == {0, 30}

----------------------------------------------------------------------------
(* apply_scan_effects, effects.py:29-99 *)

Blank == [w |-> 0, h |-> 0, px |-> <<>>]
One == [num |-> 1, den |-> 1]

\* the stage statements with the noise statement ahead of the page-edge statement
StageOrder_noise_early ==
    <<"apply_paper_color", "apply_black_and_white", "apply_warp", "apply_lighting",
      "apply_wrinkles", "apply_paper_texture", "apply_shadows", "apply_noise",
      "apply_page_edge">>

\* the stage statements of apply_scan_effects in program order, effects.py:57-91
StageOrder ==
    <<"apply_paper_color", "apply_black_and_white", "apply_warp", "apply_lighting",
      "apply_wrinkles", "apply_paper_texture", "apply_shadows", "apply_page_edge",
      "apply_noise">>

\* the statement after stage statement s
NextPc(s) ==
    LET i == CHOOSE k \in 1..Len(StageOrder) : StageOrder[k] = s
    IN  IF i = Len(StageOrder) THEN "upscale" ELSE StageOrder[i + 1]

\* a gate that compares with 0.001
Gate_loose(intensity) == intensity > 1

\* the gate of a stage statement: config.<x> > 0.01, effects.py:66-90
Gate(intensity) == intensity > Epsilon

\* A path is [dir, stem, ext]: its directory, its name without the suffix as
\* a sequence of pieces, and its suffix.  Two paths are the same string
\* exactly when the three fields agree.
Path(dir, stem, ext) == [dir |-> dir, stem |-> stem, ext |-> ext]

\* str.lower on a suffix
lower(ext) ==
    CASE ext = ".PDF" -> ".pdf"
      [] ext = ".Pdf" -> ".pdf"
      [] ext = ".TXT" -> ".txt"
      [] OTHER -> ext

\* filepath.lower().endswith('.pdf'), src/pdf_processor.py:23
endswith_pdf(filepath) == lower(filepath.ext) = ".pdf"

\* os.path.exists(filepath), src/pdf_processor.py:23 and 191
exists(filepath) == filepath \in on_disk

\* the documents the user can pick, and len(doc) of each
Documents == {Path("in", <<"a">>, ".pdf"), Path("in", <<"b">>, ".pdf"),
              Path("in", <<"empty">>, ".pdf")}

\* a document with the name of another one, in another directory
Twin == Path("scans", <<"a">>, ".pdf")

\* a document whose suffix is in capitals, and a file that is no PDF
Upper == Path("in", <<"c">>, ".PDF")
Notes == Path("in", <<"notes">>, ".txt")

PageCount(pdf_path) ==
    CASE pdf_path.stem = <<"a">> -> MaxPages
      [] pdf_path.stem = <<"empty">> -> 0
      [] OTHER -> 1

\* the six buttons _set_ui_state enables and disables, src/pdf2scan.py:660-665
Buttons == {"browse_btn", "remove_btn", "clear_btn", "preview_btn", "convert_btn",
            "browse_output_btn"}

\* no conversion run in progress
NoRun == [queue |-> <<>>, attempted |-> <<>>, failed |-> {}]

\* no call of PDFProcessor in progress, no PreviewWindow open; the documents
\* of the user are on disk
LibStart ==
    /\ on_disk = Documents \cup {Twin}
    /\ returned = "-"
    /\ held = [alias |-> FALSE, items |-> <<>>]
    /\ frame = [pc |-> "none"]
    /\ preview_window = [open |-> FALSE]

\* conversion_thread when no conversion runs
NoConversion == [pc |-> "none", total_files |-> 0, idx |-> 0, total_pages |-> 0, page_num |-> 0]

\* PDF2ScanApp.__init__, src/pdf2scan.py:37-82, and PDFProcessor.__init__,
\* src/pdf_processor.py:18-19: empty queue, every button enabled, no thread
UiStart ==
    /\ pdf_files = <<>>
    /\ button_state = [b \in Buttons |-> "normal"]
    /\ is_processing = FALSE
    /\ after_queue = <<>>
    /\ preview_thread = [t \in 1..MaxPreviews |-> "none"]
    /\ conversion_thread = NoConversion
    /\ reports = <<>>
    /\ processed = <<>>
    /\ selected_indices = {}
    /\ run = NoRun

AppStart == UiStart /\ LibStart

\* no call of apply_scan_effects yet
NoRender ==
    /\ pc = "idle"
    /\ arg = Blank
    /\ image = Blank
    /\ width = 0
    /\ height = 0
    /\ scale_factor = One
    /\ ran = <<>>
    /\ bw_at_call = FALSE
    /\ toggles = 0

Init ==
    /\ config \in Configs
    /\ HAS_OPENCV \in BOOLEAN
    /\ NoRender
    /\ AppStart

\* effects.py:29-55: the call, and the downscale of an oversized raster
Call(img, ring) ==
    /\ pc = "idle"
    /\ arg' = img
    /\ ran' = <<>>
    /\ bw_at_call' = config.black_and_white
    /\ IF Max(img.w, img.h) > max_dim
         THEN LET sf == [num |-> max_dim, den |-> Max(img.w, img.h)]
                  new_width == IntMul(img.w, sf)
                  new_height == IntMul(img.h, sf)
              IN  /\ scale_factor' = sf
                  /\ IF ResizeRaises(new_width, new_height)
                       THEN /\ pc' = "raised"
                            /\ image' = img
                            /\ width' = img.w
                            /\ height' = img.h
                       ELSE /\ pc' = StageOrder[1]
                            /\ image' = Image_resize(img, new_width, new_height, ring)
                            /\ width' = new_width
                            /\ height' = new_height
         ELSE /\ ring = 16
              /\ scale_factor' = One
              /\ pc' = StageOrder[1]
              /\ image' = img
              /\ width' = img.w
              /\ height' = img.h
    /\ UNCHANGED <<config, HAS_OPENCV, toggles>>
    /\ UNCHANGED appvars

\* what a stage statement leaves alone
StatementFrame ==
    /\ UNCHANGED <<config, HAS_OPENCV, arg, width, height, scale_factor, bw_at_call, toggles>>
    /\ UNCHANGED appvars

\* effects.py:58-59
Tint ==
    /\ pc = "apply_paper_color"
    /\ pc' = NextPc("apply_paper_color")
    /\ image' = IF ~config.black_and_white THEN apply_paper_color(image) ELSE image
    /\ ran' = IF ~config.black_and_white THEN Append(ran, "apply_paper_color") ELSE ran
    /\ StatementFrame

\* effects.py:62-63
BlackAndWhite ==
    /\ pc = "apply_black_and_white"
    /\ pc' = NextPc("apply_black_and_white")
    /\ \E rounds_up \in BOOLEAN :
          image' = IF config.black_and_white THEN apply_black_and_white(image, rounds_up)
                   ELSE image
    /\ ran' = IF config.black_and_white THEN Append(ran, "apply_black_and_white") ELSE ran
    /\ StatementFrame

\* effects.py:66-67
Warp ==
    /\ pc = "apply_warp"
    /\ pc' = NextPc("apply_warp")
    /\ \E blend \in BOOLEAN :
          image' = IF Gate(config.warp) THEN apply_warp(image, config.warp, blend) ELSE image
    /\ ran' = IF Gate(config.warp) THEN Append(ran, "apply_warp") ELSE ran
    /\ StatementFrame

\* effects.py:70-71
Lighting ==
    /\ pc = "apply_lighting"
    /\ pc' = NextPc("apply_lighting")
    /\ \E norm_dist \in NormDistDraws :
          image' = IF Gate(config.lighting)
                     THEN apply_lighting(image, config.lighting, norm_dist) ELSE image
    /\ ran' = IF Gate(config.lighting) THEN Append(ran, "apply_lighting") ELSE ran
    /\ StatementFrame

\* effects.py:74-75
Wrinkles ==
    /\ pc = "apply_wrinkles"
    /\ pc' = NextPc("apply_wrinkles")
    /\ \E strength \in StrengthDraws, hits \in HitDraws :
          image' = IF Gate(config.wrinkles)
                     THEN apply_wrinkles(image, config.wrinkles, strength, hits) ELSE image
    /\ ran' = IF Gate(config.wrinkles) THEN Append(ran, "apply_wrinkles") ELSE ran
    /\ StatementFrame

\* effects.py:78-79
PaperTexture ==
    /\ pc = "apply_paper_texture"
    /\ pc' = NextPc("apply_paper_texture")
    /\ \E grain \in GrainDraws(image) :
          image' = IF Gate(config.paper_texture)
                     THEN apply_paper_texture(image, config.paper_texture, grain) ELSE image
    /\ ran' = IF Gate(config.paper_texture) THEN Append(ran, "apply_paper_texture") ELSE ran
    /\ StatementFrame

\* effects.py:82-83
Shadows ==
    /\ pc = "apply_shadows"
    /\ pc' = NextPc("apply_shadows")
    /\ \E at_corner \in BOOLEAN :
          image' = IF Gate(config.shadows)
                     THEN apply_shadows(image, config.shadows, config.tilt_randomness, at_corner)
                     ELSE image
    /\ ran' = IF Gate(config.shadows) THEN Append(ran, "apply_shadows") ELSE ran
    /\ StatementFrame

\* effects.py:86-87
PageEdge ==
    /\ pc = "apply_page_edge"
    /\ pc' = NextPc("apply_page_edge")
    /\ \E u \in TiltDraws, jitter \in JitterDraws, alpha \in AlphaDraws, dark \in BOOLEAN :
          image' = IF Gate(config.page_edge)
                     THEN apply_page_edge(image, config.page_edge, config.tilt_randomness,
                                          u, jitter, alpha, dark)
                     ELSE image
    /\ ran' = IF Gate(config.page_edge) THEN Append(ran, "apply_page_edge") ELSE ran
    /\ StatementFrame

\* effects.py:90-91
Noise ==
    /\ pc = "apply_noise"
    /\ pc' = NextPc("apply_noise")
    /\ \E sigmas \in SigmaDraws :
          image' = IF Gate(config.noise) THEN apply_noise(image, config.noise, sigmas) ELSE image
    /\ ran' = IF Gate(config.noise) THEN Append(ran, "apply_noise") ELSE ran
    /\ StatementFrame

\* effects.py:93-99: the upscale of a downscaled raster, and the return
Upscale(ring) ==
    /\ pc = "upscale"
    /\ IF scale_factor # One
         THEN LET original_width == IntDiv(width, scale_factor)
                  original_height == IntDiv(height, scale_factor)
              IN  IF ResizeRaises(original_width, original_height)
                    THEN pc' = "raised" /\ image' = image
                    ELSE /\ pc' = "returned"
                         /\ image' = Image_resize(image, original_width, original_height, ring)
         ELSE /\ ring = 16
              /\ pc' = "returned"
              /\ image' = image
    /\ UNCHANGED <<config, HAS_OPENCV, arg, width, height, scale_factor, ran,
                   bw_at_call, toggles>>
    /\ UNCHANGED appvars

\* PDF2ScanApp._toggle_bw, src/pdf2scan.py:401-403: the UI thread flips
\* config.black_and_white on the object a running render reads
ToggleBw ==
    /\ toggles < MaxToggles
    /\ toggles' = toggles + 1
    /\ config' = [config EXCEPT !.black_and_white = ~config.black_and_white]
    /\ UNCHANGED <<HAS_OPENCV, pc, arg, image, width, height, scale_factor, ran,
                   bw_at_call>>
    /\ UNCHANGED appvars

Next ==
    \/ \E img \in Inputs, ring \in RingDraws : Call(img, ring)
    \/ Tint
    \/ BlackAndWhite
    \/ Warp
    \/ Lighting
    \/ Wrinkles
    \/ PaperTexture
    \/ Shadows
    \/ PageEdge
    \/ Noise
    \/ \E ring \in RingDraws : Upscale(ring)
    \/ ToggleBw

Spec == Init /\ [][Next]_vars

----------------------------------------------------------------------------
(* The application around the pipeline: PDF2ScanApp (src/pdf2scan.py) and   *)
(* PDFProcessor (src/pdf_processor.py).  The UI thread runs the handlers    *)
(* and the callbacks posted with self.after(0, ...); a preview thread and a *)
(* conversion thread call apply_scan_effects through render_page and        *)
(* convert_pdf.  A thread whose position is "apply_scan_effects" is between *)
(* the call and the return of apply_scan_effects.                           *)

\* what one file dialog or one drop delivers: one or two documents
FileSelections ==
    {<<f>> : f \in Documents} \cup {<<f, g>> : f \in Documents, g \in Documents}

\* PDFProcessor.add_pdf, src/pdf_processor.py:21-27: the queue after the call
add_pdf(files, filepath) ==
    IF exists(filepath) /\ endswith_pdf(filepath) /\ filepath \notin Range(files)
      THEN Append(files, filepath)
      ELSE files

\* the value add_pdf returns, src/pdf_processor.py:23-27
add_pdf_returns(files, filepath) ==
    IF exists(filepath) /\ endswith_pdf(filepath) /\ filepath \notin Range(files)
      THEN "True"
      ELSE "False"

\* PDFProcessor.remove_pdf, src/pdf_processor.py:29-32: list.remove takes out
\* the first occurrence
remove_pdf(files, filepath) ==
    IF filepath \in Range(files)
      THEN LET i == CHOOSE k \in 1..Len(files) :
                        files[k] = filepath /\ \A j \in 1..(k - 1) : files[j] # filepath
           IN  SubSeq(files, 1, i - 1) \o SubSeq(files, i + 1, Len(files))
      ELSE files

\* PDFProcessor.clear_queue, src/pdf_processor.py:34-36
clear_queue(files) == <<>>

\* a get_queue that hands out the queue itself
get_queue_same_list(files) == [alias |-> TRUE, items |-> files]

\* PDFProcessor.get_queue, src/pdf_processor.py:38-40: a new list with the
\* same items; alias tells whether the list is the queue object itself
get_queue(files) == [alias |-> FALSE, items |-> files]

RECURSIVE AddAll(_, _)
\* the loop `for file in files: self.processor.add_pdf(file)`
AddAll(files, selection) ==
    IF selection = <<>> THEN files
    ELSE AddAll(add_pdf(files, Head(selection)), Tail(selection))

\* FileQueueList.update_files, src/ui_components.py:32-53, called through
\* _update_queue (src/pdf2scan.py:455-457): the selection it leaves
update_files == {}

\* a _set_ui_state that only ever disables
set_ui_state_disabled(enabled) == [b \in Buttons |-> "disabled"]

\* PDF2ScanApp._set_ui_state, src/pdf2scan.py:656-665
set_ui_state(enabled) == [b \in Buttons |-> IF enabled THEN "normal" ELSE "disabled"]

\* the report of the page loop with the 0-based page index as `current`
ProgressReport_zero_based(page_num, total_pages) ==
    [current |-> page_num, total |-> total_pages, message |-> "Processing"]

\* progress_callback(page_num + 1, total_pages, "Processing page ..."),
\* src/pdf_processor.py:119-124
ProgressReport(page_num, total_pages) ==
    [current |-> page_num + 1, total |-> total_pages, message |-> "Processing"]

\* progress_callback(total_pages, total_pages, "Completed: ..."), pdf_processor.py:169-174
CompletedReport(total_pages) ==
    [current |-> total_pages, total |-> total_pages, message |-> "Completed"]

\* progress_callback(0, 0, "Error: ..."), pdf_processor.py:180-181
ErrorReport == [current |-> 0, total |-> 0, message |-> "Error"]

\* PDF2ScanApp._browse_files, src/pdf2scan.py:426-437
BrowseFiles(files) ==
    /\ button_state["browse_btn"] = "normal"
    /\ pdf_files' = AddAll(pdf_files, files)
    /\ selected_indices' = update_files
    /\ UNCHANGED <<button_state, is_processing, after_queue, preview_thread,
                   conversion_thread, reports, processed>>
    /\ UNCHANGED <<renderVars, libvars, run>>

\* PDF2ScanApp._remove_selected, src/pdf2scan.py:439-447, run by a click on
\* the enabled Remove button: it takes the first file out of the queue
RemoveSelected ==
    /\ button_state["remove_btn"] = "normal"
    /\ pdf_files # <<>>
    /\ pdf_files' = remove_pdf(pdf_files, pdf_files[1])
    /\ selected_indices' = update_files
    /\ UNCHANGED <<button_state, is_processing, after_queue, preview_thread,
                   conversion_thread, reports, processed>>
    /\ UNCHANGED <<renderVars, libvars, run>>

\* PDF2ScanApp._clear_files, src/pdf2scan.py:449-453
ClearFiles ==
    /\ button_state["clear_btn"] = "normal"
    /\ pdf_files' = clear_queue(pdf_files)
    /\ selected_indices' = update_files
    /\ UNCHANGED <<button_state, is_processing, after_queue, preview_thread,
                   conversion_thread, reports, processed>>
    /\ UNCHANGED <<renderVars, libvars, run>>

\* FileQueueList._on_click, src/ui_components.py:64-67: a click on the label
\* of the file at `index`
OnClick(index) ==
    /\ 0 <= index /\ index < Len(pdf_files)
    /\ selected_indices' = {index}
    /\ UNCHANGED <<pdf_files, button_state, is_processing, after_queue, preview_thread,
                   conversion_thread, reports, processed>>
    /\ UNCHANGED <<renderVars, libvars, run>>

\* FileQueueList._on_shift_click, src/ui_components.py:77-84: the labels
\* that exist are those of the files in the queue
OnShiftClick(index) ==
    /\ 0 <= index /\ index < Len(pdf_files)
    /\ selected_indices' =
          IF selected_indices # {}
            THEN LET last == CHOOSE i \in selected_indices : \A j \in selected_indices : j <= i
                 IN  selected_indices \cup (Min(last, index)..Max(last, index))
            ELSE {index}
    /\ UNCHANGED <<pdf_files, button_state, is_processing, after_queue, preview_thread,
                   conversion_thread, reports, processed>>
    /\ UNCHANGED <<renderVars, libvars, run>>

\* FileQueueList._on_ctrl_click, src/ui_components.py:69-75
OnCtrlClick(index) ==
    /\ 0 <= index /\ index < Len(pdf_files)
    /\ selected_indices' = IF index \in selected_indices
                             THEN selected_indices \ {index}
                             ELSE selected_indices \cup {index}
    /\ UNCHANGED <<pdf_files, button_state, is_processing, after_queue, preview_thread,
                   conversion_thread, reports, processed>>
    /\ UNCHANGED <<renderVars, libvars, run>>

\* PDF2ScanApp._on_drop, src/pdf2scan.py:459-470: bound to the window, not
\* to a button
OnDrop(files) ==
    /\ pdf_files' = AddAll(pdf_files, files)
    /\ selected_indices' = update_files
    /\ UNCHANGED <<button_state, is_processing, after_queue, preview_thread,
                   conversion_thread, reports, processed>>
    /\ UNCHANGED <<renderVars, libvars, run>>

\* PDF2ScanApp._preview_first_page, src/pdf2scan.py:486-524, run by a click
\* on the enabled preview button; t is the first unused thread
PreviewFirstPage(t) ==
    /\ Len(after_queue) < MaxPending
    /\ button_state["preview_btn"] = "normal"
    /\ pdf_files # <<>>
    /\ preview_thread[t] = "none"
    /\ \A u \in 1..(t - 1) : preview_thread[u] # "none"
    /\ button_state' = [button_state EXCEPT !["preview_btn"] = "disabled"]
    /\ preview_thread' = [preview_thread EXCEPT ![t] = "started"]
    /\ UNCHANGED <<pdf_files, is_processing, after_queue, conversion_thread,
                   reports, processed>>
    /\ UNCHANGED <<renderVars, libvars, selected_indices, run>>

\* preview_thread up to the call of apply_scan_effects: pdf2scan.py:499-503
\* and render_page, pdf_processor.py:54-74.  With an empty queue or a
\* document without a first page it goes to its finally clause, which posts
\* the callback that re-enables the preview button (pdf2scan.py:518-521).
PreviewRender(t) ==
    /\ preview_thread[t] = "started"
    /\ IF pdf_files = <<>> \/ PageCount(pdf_files[1]) = 0
         THEN /\ preview_thread' = [preview_thread EXCEPT ![t] = "none"]
              /\ after_queue' = Append(after_queue, "preview_btn_normal")
         ELSE /\ preview_thread' = [preview_thread EXCEPT ![t] = "apply_scan_effects"]
              /\ after_queue' = after_queue
    /\ UNCHANGED <<pdf_files, button_state, is_processing, conversion_thread,
                   reports, processed>>
    /\ UNCHANGED <<renderVars, libvars, selected_indices, run>>

\* apply_scan_effects returns to render_page or raises into its except
\* clause (pdf_processor.py:74-80); preview_thread posts its callbacks, the
\* last one re-enabling the preview button (pdf2scan.py:505-521)
PreviewReturn(t) ==
    /\ preview_thread[t] = "apply_scan_effects"
    /\ preview_thread' = [preview_thread EXCEPT ![t] = "none"]
    /\ after_queue' = Append(after_queue, "preview_btn_normal")
    /\ UNCHANGED <<pdf_files, button_state, is_processing, conversion_thread,
                   reports, processed>>
    /\ UNCHANGED <<renderVars, libvars, selected_indices, run>>

\* PDF2ScanApp._convert_pdfs, src/pdf2scan.py:599-654, run by a click on the
\* enabled convert button (the output directory is set)
ConvertPdfs ==
    /\ Len(after_queue) < MaxPending
    /\ button_state["convert_btn"] = "normal"
    /\ pdf_files # <<>>
    /\ is_processing' = TRUE
    /\ button_state' = set_ui_state(FALSE)
    /\ conversion_thread' = [NoConversion EXCEPT !.pc = "started"]
    /\ run' = [queue |-> pdf_files, attempted |-> <<>>, failed |-> {}]
    /\ UNCHANGED <<pdf_files, after_queue, preview_thread, reports, processed>>
    /\ UNCHANGED <<renderVars, libvars, selected_indices>>

\* conversion_thread, pdf2scan.py:625
ConversionStart ==
    /\ conversion_thread.pc = "started"
    /\ conversion_thread' = [conversion_thread EXCEPT !.pc = "next_file",
                                                      !.total_files = Len(pdf_files)]
    /\ UNCHANGED <<pdf_files, button_state, is_processing, after_queue, preview_thread,
                   reports, processed>>
    /\ UNCHANGED <<renderVars, libvars, selected_indices, run>>

\* one turn of `for idx, pdf_path in enumerate(self.processor.pdf_files)`,
\* pdf2scan.py:627-642, into convert_pdf up to its page loop,
\* pdf_processor.py:101-115; after the last document the thread posts
\* _set_ui_state(True) and is_processing = False (pdf2scan.py:648-651)
ConversionNextFile ==
    /\ conversion_thread.pc = "next_file"
    /\ IF conversion_thread.idx >= Len(pdf_files)
         THEN /\ conversion_thread' = NoConversion
              /\ after_queue' = after_queue \o <<"set_ui_state_true", "is_processing_false">>
              /\ run' = NoRun
              /\ reports' = <<>>
              /\ processed' = <<>>
         ELSE LET pdf_path == pdf_files[conversion_thread.idx + 1]
                  total_pages == PageCount(pdf_path)
              IN  /\ reports' = <<>>
                  /\ processed' = <<>>
                  /\ run' = [run EXCEPT !.attempted = Append(@, pdf_path),
                                        !.failed = IF total_pages = 0
                                                     THEN @ \cup {pdf_path} ELSE @]
                  /\ after_queue' = after_queue
                  /\ conversion_thread' =
                        IF total_pages = 0
                          THEN [conversion_thread EXCEPT !.idx = @ + 1]
                          ELSE [conversion_thread EXCEPT !.pc = "page",
                                                         !.total_pages = total_pages,
                                                         !.page_num = 0]
    /\ UNCHANGED <<pdf_files, button_state, is_processing, preview_thread>>
    /\ UNCHANGED <<renderVars, libvars, selected_indices>>

\* the head of the page loop, pdf_processor.py:118-138: the progress report,
\* the rasterisation of the page and the call of apply_scan_effects
ConversionPage ==
    /\ conversion_thread.pc = "page"
    /\ reports' = Append(reports, ProgressReport(conversion_thread.page_num,
                                                 conversion_thread.total_pages))
    /\ conversion_thread' = [conversion_thread EXCEPT !.pc = "apply_scan_effects"]
    /\ UNCHANGED <<pdf_files, button_state, is_processing, after_queue, preview_thread,
                   processed>>
    /\ UNCHANGED <<renderVars, libvars, selected_indices, run>>

\* apply_scan_effects returns (ok) or raises (~ok).  On return the page is
\* encoded and inserted (pdf_processor.py:140-155); after the last page the
\* output is saved and the completion reported (157-176).  On an exception
\* convert_pdf reports the error and returns False (178-182).
ConversionPageDone(ok) ==
    /\ conversion_thread.pc = "apply_scan_effects"
    /\ IF ok
         THEN /\ processed' = Append(processed, conversion_thread.page_num)
              /\ IF conversion_thread.page_num + 1 < conversion_thread.total_pages
                   THEN /\ conversion_thread' = [conversion_thread EXCEPT !.pc = "page",
                                                                          !.page_num = @ + 1]
                        /\ reports' = reports
                   ELSE /\ conversion_thread' = [conversion_thread EXCEPT !.pc = "next_file",
                                                                          !.idx = @ + 1]
                        /\ reports' = Append(reports, CompletedReport(conversion_thread.total_pages))
         ELSE /\ processed' = processed
              /\ conversion_thread' = [conversion_thread EXCEPT !.pc = "next_file",
                                                                !.idx = @ + 1]
              /\ reports' = Append(reports, ErrorReport)
    /\ run' = IF ok THEN run
              ELSE [run EXCEPT !.failed = @ \cup {pdf_files[conversion_thread.idx + 1]}]
    /\ UNCHANGED <<pdf_files, button_state, is_processing, after_queue, preview_thread>>
    /\ UNCHANGED <<renderVars, libvars, selected_indices>>

\* the UI thread runs the oldest callback posted with self.after(0, ...):
\* pdf2scan.py:519-521, 650 and 651
RunCallback ==
    /\ after_queue # <<>>
    /\ after_queue' = Tail(after_queue)
    /\ button_state' =
          CASE Head(after_queue) = "preview_btn_normal" ->
                  [button_state EXCEPT !["preview_btn"] = "normal"]
            [] Head(after_queue) = "set_ui_state_true" -> set_ui_state(TRUE)
            [] OTHER -> button_state
    /\ is_processing' = IF Head(after_queue) = "is_processing_false" THEN FALSE
                        ELSE is_processing
    /\ UNCHANGED <<pdf_files, preview_thread, conversion_thread, reports, processed>>
    /\ UNCHANGED <<renderVars, libvars, selected_indices, run>>

AppInit == Init /\ config = DefaultConfig /\ HAS_OPENCV

AppNext ==
    \/ \E files \in FileSelections : BrowseFiles(files)
    \/ \E files \in FileSelections : OnDrop(files)
    \/ RemoveSelected
    \/ ClearFiles
    \/ \E t \in 1..MaxPreviews : PreviewFirstPage(t)
    \/ \E t \in 1..MaxPreviews : PreviewRender(t)
    \/ \E t \in 1..MaxPreviews : PreviewReturn(t)
    \/ ConvertPdfs
    \/ ConversionStart
    \/ ConversionNextFile
    \/ ConversionPage
    \/ \E ok \in BOOLEAN : ConversionPageDone(ok)
    \/ RunCallback

AppSpec == AppInit /\ [][AppNext]_vars

\* The threads and the event loop keep running: a started thread gets
\* processor time, apply_scan_effects returns or raises, and the Tk event
\* loop runs every callback posted with self.after(0, ...).  Nothing is
\* assumed about what the user does.
AppFairSpec ==
    /\ AppSpec
    /\ WF_vars(ConversionStart)
    /\ WF_vars(ConversionNextFile)
    /\ WF_vars(ConversionPage)
    /\ WF_vars(\E ok \in BOOLEAN : ConversionPageDone(ok))
    /\ WF_vars(RunCallback)

----------------------------------------------------------------------------
(* The queue card on its own: the handlers that change the queue and the    *)
(* clicks on the labels of the queue list (FileQueueList).                  *)

\* what one file dialog or one drop delivers here
QueueSelections ==
    {<<f>> : f \in Documents \cup {Twin}}
      \cup {<<f, g>> : f \in Documents \cup {Twin}, g \in Documents \cup {Twin}}

QueueCardNext ==
    \/ \E files \in QueueSelections : BrowseFiles(files)
    \/ \E files \in QueueSelections : OnDrop(files)
    \/ RemoveSelected
    \/ ClearFiles
    \/ \E index \in 0..Cardinality(Documents) : OnClick(index)
    \/ \E index \in 0..Cardinality(Documents) : OnCtrlClick(index)
    \/ \E index \in 0..Cardinality(Documents) : OnShiftClick(index)

QueueCardSpec == AppInit /\ [][QueueCardNext]_vars

----------------------------------------------------------------------------
(* The queue of PDFProcessor on its own: calls of add_pdf, remove_pdf,      *)
(* clear_queue and get_queue with any path, a caller that changes the list  *)
(* it got from get_queue, and files that appear and disappear on disk.      *)

\* the paths the calls are made with
QueuePaths == {Path("in", <<"a">>, ".pdf"), Path("in", <<"b">>, ".pdf"), Upper, Notes}

\* what a list a caller holds becomes when the queue becomes `files`
Sync(h, files) == IF h.alias THEN [h EXCEPT !.items = files] ELSE h

\* what the calls of the queue leave alone
QueueFrame ==
    UNCHANGED <<renderVars, button_state, is_processing, after_queue, preview_thread,
                conversion_thread, reports, processed, selected_indices, run>>

AddPdf(filepath) ==
    /\ pdf_files' = add_pdf(pdf_files, filepath)
    /\ returned' = add_pdf_returns(pdf_files, filepath)
    /\ held' = Sync(held, pdf_files')
    /\ UNCHANGED <<on_disk, frame, preview_window>>
    /\ QueueFrame

RemovePdf(filepath) ==
    /\ pdf_files' = remove_pdf(pdf_files, filepath)
    /\ returned' = "None"
    /\ held' = Sync(held, pdf_files')
    /\ UNCHANGED <<on_disk, frame, preview_window>>
    /\ QueueFrame

ClearQueue ==
    /\ pdf_files' = clear_queue(pdf_files)
    /\ returned' = "None"
    /\ held' = Sync(held, pdf_files')
    /\ UNCHANGED <<on_disk, frame, preview_window>>
    /\ QueueFrame

GetQueue ==
    /\ held' = get_queue(pdf_files)
    /\ returned' = "list"
    /\ UNCHANGED <<pdf_files, on_disk, frame, preview_window>>
    /\ QueueFrame

\* the caller appends to the list it got from get_queue, or clears it
MutateHeld(filepath) ==
    /\ returned = "list"
    /\ \/ Len(held.items) < MaxHeld /\ held' = [held EXCEPT !.items = Append(@, filepath)]
       \/ held.items # <<>> /\ held' = [held EXCEPT !.items = <<>>]
    /\ pdf_files' = IF held.alias THEN held'.items ELSE pdf_files
    /\ UNCHANGED <<on_disk, returned, frame, preview_window>>
    /\ QueueFrame

\* a file is deleted or created behind the back of the program
Unlink(filepath) ==
    /\ filepath \in on_disk
    /\ on_disk' = on_disk \ {filepath}
    /\ UNCHANGED <<pdf_files, returned, held, frame, preview_window>>
    /\ QueueFrame

Create(filepath) ==
    /\ filepath \notin on_disk
    /\ on_disk' = on_disk \cup {filepath}
    /\ UNCHANGED <<pdf_files, returned, held, frame, preview_window>>
    /\ QueueFrame

QueueInit ==
    /\ config = DefaultConfig
    /\ HAS_OPENCV = TRUE
    /\ NoRender
    /\ UiStart
    /\ on_disk = QueuePaths \ {Path("in", <<"b">>, ".pdf")}
    /\ returned = "-"
    /\ held = [alias |-> FALSE, items |-> <<>>]
    /\ frame = [pc |-> "none"]
    /\ preview_window = [open |-> FALSE]

QueueNext ==
    \/ \E filepath \in QueuePaths : AddPdf(filepath)
    \/ \E filepath \in QueuePaths : RemovePdf(filepath)
    \/ ClearQueue
    \/ GetQueue
    \/ \E filepath \in QueuePaths : MutateHeld(filepath)
    \/ \E filepath \in QueuePaths : Unlink(filepath)
    \/ \E filepath \in QueuePaths : Create(filepath)

QueueSpec == QueueInit /\ [][QueueNext]_vars

----------------------------------------------------------------------------
(* convert_pdf and render_page on their own, statement by statement: one    *)
(* call after the other on the same output directory.  frame holds the      *)
(* locals of the call, the document handles that are open (frame.open), the *)
(* config fields read so far and by whom (frame.reads), the encoded pages   *)
(* of the output document and what was saved.  Every library call that can  *)
(* fail either succeeds or raises; a progress callback, when one is given,  *)
(* either returns or raises (self.after raises once the window has been     *)
(* destroyed).  The UI thread can toggle the metadata checkbox meanwhile.   *)

\* a document that a previous conversion wrote, queued again
Rescan == Path("in", <<"a", "_scanned">>, ".pdf")

\* a document that is in the queue and is deleted before it is converted
Missing == Path("in", <<"b">>, ".pdf")

\* the documents convert_pdf and render_page are called with
ConvertDocs == {Path("in", <<"a">>, ".pdf"), Twin, Rescan, Missing,
                Path("in", <<"empty">>, ".pdf")}

\* doc.metadata of an input document
Metadata(pdf_path) ==
    [title |-> Head(pdf_path.stem), author |-> pdf_path.dir, producer |-> "writer"]

\* the metadata of the document fitz.open() creates
NewDocMetadata == [title |-> "", author |-> "", producer |-> ""]

\* Document.set_metadata(m): the empty dict clears every entry, another
\* dict sets the entries it has
set_metadata(old, m) ==
    IF DOMAIN m = {} THEN [k \in DOMAIN old |-> ""]
    ELSE [k \in DOMAIN old |-> IF k \in DOMAIN m THEN m[k] ELSE old[k]]

\* an output document that carries the metadata of the input whatever the
\* checkbox says
output_metadata_copied(blank_metadata, pdf_path) ==
    set_metadata(NewDocMetadata, Metadata(pdf_path))

\* the metadata of the output document, src/pdf_processor.py:157-162
output_metadata(blank_metadata, pdf_path) ==
    IF blank_metadata
      THEN set_metadata(NewDocMetadata, <<>>)
      ELSE set_metadata(NewDocMetadata, Metadata(pdf_path))

\* the attributes of config that apply_scan_effects reads, src/effects.py:58-91
PipelineReads ==
    {"black_and_white", "warp", "lighting", "wrinkles", "paper_texture", "shadows",
     "tilt_randomness", "page_edge", "noise"}

\* the decimal digits of a counter, as the f-string writes them
str(counter) == <<"1", "2", "3", "4", "5", "6", "7", "8", "9">>[counter]

\* f"{base_name}_scanned.pdf" and f"{base_name}_scanned{counter}.pdf" in
\* output_dir, src/pdf_processor.py:186-187 and 192-193
OutputName(output_dir, base_name, counter) ==
    Path(output_dir,
         base_name \o (IF counter = 1 THEN <<"_scanned">> ELSE <<"_scanned", str(counter)>>),
         ".pdf")

RECURSIVE UniqueLoop_unchecked(_, _, _, _)
\* the loop without its test: the first name is taken as it is
UniqueLoop_unchecked(output_dir, base_name, output_path, counter) == output_path

RECURSIVE UniqueLoop(_, _, _, _)
\* the loop `while os.path.exists(output_path)`, src/pdf_processor.py:190-194
UniqueLoop(output_dir, base_name, output_path, counter) ==
    IF exists(output_path)
      THEN UniqueLoop(output_dir, base_name, OutputName(output_dir, base_name, counter),
                      counter + 1)
      ELSE output_path

\* PDFProcessor._get_unique_output_path, src/pdf_processor.py:184-196
get_unique_output_path(output_dir, base_name) ==
    UniqueLoop(output_dir, base_name, OutputName(output_dir, base_name, 1), 2)

\* nothing saved by the call so far
NotSaved == [path |-> Path("", <<>>, ""), metadata |-> NewDocMetadata, pages |-> <<>>,
             overwrote |-> FALSE]

\* the frame of a call that has just begun
NewFrame(fn, pdf_path, page_num, callback) ==
    [fn |-> fn, pc |-> "open", pdf_path |-> pdf_path, output_dir |-> "in",
     callback |-> callback, total_pages |-> 0, page_num |-> page_num,
     output_path |-> Path("", <<>>, ""), open |-> {}, reads |-> {}, pages |-> <<>>,
     saved |-> NotSaved]

\* the documents that calls of convert_pdf have added to the disk
Outputs == on_disk \ ConvertDocs

\* what convert_pdf and render_page leave alone
ConvertFrame ==
    UNCHANGED <<HAS_OPENCV, pc, arg, image, width, height, scale_factor, ran, bw_at_call,
                toggles, pdf_files, button_state, is_processing, after_queue,
                preview_thread, conversion_thread, processed, selected_indices, run,
                held, preview_window>>

\* the call convert_pdf(pdf_path, output_dir, config, progress_callback),
\* src/pdf_processor.py:82-88; callback tells whether one is passed
CallConvertPdf(pdf_path, callback) ==
    /\ frame.pc \in {"none", "returned"}
    /\ Cardinality(Outputs) < MaxOutputs
    /\ frame' = NewFrame("convert_pdf", pdf_path, 0, callback)
    /\ returned' = "-"
    /\ reports' = <<>>
    /\ UNCHANGED <<config, on_disk>>
    /\ ConvertFrame

\* src/pdf_processor.py:101-115: the input document is opened; a document
\* without pages is closed and False returned; otherwise the output path is
\* chosen and the output document created
ConvertOpen ==
    /\ frame.pc = "open" /\ frame.fn = "convert_pdf"
    /\ IF ~exists(frame.pdf_path)
         THEN frame' = [frame EXCEPT !.pc = "except"] /\ returned' = returned
         ELSE IF PageCount(frame.pdf_path) = 0
           THEN /\ frame' = [frame EXCEPT !.pc = "returned", !.open = {}]
                /\ returned' = "False"
           ELSE /\ frame' = [frame EXCEPT
                               !.pc = "page",
                               !.total_pages = PageCount(frame.pdf_path),
                               !.output_path = get_unique_output_path(frame.output_dir,
                                                                      frame.pdf_path.stem),
                               !.open = {"doc", "output_doc"}]
                /\ returned' = returned
    /\ UNCHANGED <<config, on_disk, reports>>
    /\ ConvertFrame

\* one turn of the page loop, src/pdf_processor.py:118-155: the progress
\* report, the rasterisation at config.dpi, apply_scan_effects, the JPEG
\* encoding at config.jpg_quality, and the insertion of the image through
\* img_doc.  outcome tells where an exception, if any, is raised.
ConvertPage(callback_raises, outcome) ==
    /\ frame.pc = "page" /\ frame.fn = "convert_pdf"
    /\ IF frame.callback /\ callback_raises
         THEN /\ frame' = [frame EXCEPT !.pc = "except"]
              /\ reports' = reports
         ELSE /\ reports' = IF frame.callback
                              THEN Append(reports, ProgressReport(frame.page_num,
                                                                  frame.total_pages))
                              ELSE reports
              /\ CASE outcome = "raises in the pipeline" ->
                        frame' = [frame EXCEPT
                                    !.pc = "except",
                                    !.reads = @ \cup {<<"convert_pdf", "dpi">>}
                                                \cup {<<"apply_scan_effects", f>> : f \in PipelineReads}]
                   [] outcome = "raises at the insertion" ->
                        frame' = [frame EXCEPT
                                    !.pc = "except",
                                    !.open = @ \cup {"img_doc"},
                                    !.reads = @ \cup {<<"convert_pdf", "dpi">>,
                                                       <<"convert_pdf", "jpg_quality">>}
                                                \cup {<<"apply_scan_effects", f>> : f \in PipelineReads}]
                   [] OTHER ->
                        frame' = [frame EXCEPT
                                    !.pc = IF frame.page_num + 1 < frame.total_pages
                                             THEN "page" ELSE "finish",
                                    !.page_num = @ + 1,
                                    !.pages = Append(@, [page |-> frame.page_num,
                                                         quality |-> config.jpg_quality]),
                                    !.reads = @ \cup {<<"convert_pdf", "dpi">>,
                                                       <<"convert_pdf", "jpg_quality">>}
                                                \cup {<<"apply_scan_effects", f>> : f \in PipelineReads}]
    /\ UNCHANGED <<config, on_disk, returned>>
    /\ ConvertFrame

\* src/pdf_processor.py:157-176: the metadata, the save, the two close calls
\* and the completion report
ConvertFinish(save_raises, callback_raises) ==
    /\ frame.pc = "finish" /\ frame.fn = "convert_pdf"
    /\ LET metadata == output_metadata(config.blank_metadata, frame.pdf_path)
           read == frame.reads \cup {<<"convert_pdf", "blank_metadata">>}
       IN  IF save_raises
             THEN /\ frame' = [frame EXCEPT !.pc = "except", !.reads = read]
                  /\ UNCHANGED <<on_disk, reports, returned>>
             ELSE /\ on_disk' = on_disk \cup {frame.output_path}
                  /\ IF frame.callback /\ callback_raises
                       THEN /\ frame' = [frame EXCEPT
                                           !.pc = "except", !.reads = read, !.open = {},
                                           !.saved = [path |-> frame.output_path,
                                                      metadata |-> metadata,
                                                      pages |-> frame.pages,
                                                      overwrote |-> exists(frame.output_path)]]
                            /\ UNCHANGED <<reports, returned>>
                       ELSE /\ frame' = [frame EXCEPT
                                           !.pc = "returned", !.reads = read, !.open = {},
                                           !.saved = [path |-> frame.output_path,
                                                      metadata |-> metadata,
                                                      pages |-> frame.pages,
                                                      overwrote |-> exists(frame.output_path)]]
                            /\ reports' = IF frame.callback
                                            THEN Append(reports, CompletedReport(frame.total_pages))
                                            ELSE reports
                            /\ returned' = "True"
    /\ UNCHANGED config
    /\ ConvertFrame

\* the except clause, src/pdf_processor.py:178-182
ConvertExcept(callback_raises) ==
    /\ frame.pc = "except" /\ frame.fn = "convert_pdf"
    /\ frame' = [frame EXCEPT !.pc = "returned"]
    /\ IF frame.callback /\ callback_raises
         THEN returned' = "raised" /\ reports' = reports
         ELSE /\ returned' = "False"
              /\ reports' = IF frame.callback THEN Append(reports, ErrorReport) ELSE reports
    /\ UNCHANGED <<config, on_disk>>
    /\ ConvertFrame

\* the call render_page(pdf_path, page_num, config), src/pdf_processor.py:42
CallRenderPage(pdf_path, page_num) ==
    /\ frame.pc \in {"none", "returned"}
    /\ frame' = NewFrame("render_page", pdf_path, page_num, FALSE)
    /\ returned' = "-"
    /\ reports' = <<>>
    /\ UNCHANGED <<config, on_disk>>
    /\ ConvertFrame

\* src/pdf_processor.py:54-71: the document is opened, a page number past
\* the end closes it and returns None, otherwise the page is rasterised and
\* the document closed; an exception goes to the except clause (78-80)
RenderOpen(raises) ==
    /\ frame.pc = "open" /\ frame.fn = "render_page"
    /\ IF ~exists(frame.pdf_path)
         THEN frame' = [frame EXCEPT !.pc = "returned"] /\ returned' = "None"
         ELSE IF frame.page_num >= PageCount(frame.pdf_path)
           THEN frame' = [frame EXCEPT !.pc = "returned", !.open = {}] /\ returned' = "None"
           ELSE IF raises
             THEN /\ frame' = [frame EXCEPT !.pc = "returned", !.open = {"doc"},
                                            !.reads = @ \cup {<<"render_page", "dpi">>}]
                  /\ returned' = "None"
             ELSE /\ frame' = [frame EXCEPT !.pc = "apply_scan_effects", !.open = {},
                                            !.reads = @ \cup {<<"render_page", "dpi">>}]
                  /\ returned' = returned
    /\ UNCHANGED <<config, on_disk, reports>>
    /\ ConvertFrame

\* src/pdf_processor.py:73-80: apply_scan_effects returns the image or raises
RenderApply(raises) ==
    /\ frame.pc = "apply_scan_effects" /\ frame.fn = "render_page"
    /\ frame' = [frame EXCEPT !.pc = "returned",
                              !.reads = @ \cup {<<"apply_scan_effects", f>> : f \in PipelineReads}]
    /\ returned' = IF raises THEN "None" ELSE "image"
    /\ UNCHANGED <<config, on_disk, reports>>
    /\ ConvertFrame

\* PDF2ScanApp._toggle_metadata, src/pdf2scan.py:405-408
ToggleMetadata ==
    /\ config' = [config EXCEPT !.blank_metadata = ~config.blank_metadata]
    /\ UNCHANGED <<on_disk, returned, frame, reports>>
    /\ ConvertFrame

ConvertInit ==
    /\ config = DefaultConfig
    /\ HAS_OPENCV = TRUE
    /\ NoRender
    /\ UiStart
    /\ on_disk = ConvertDocs \ {Missing}
    /\ returned = "-"
    /\ held = [alias |-> FALSE, items |-> <<>>]
    /\ frame = [pc |-> "none"]
    /\ preview_window = [open |-> FALSE]

ConvertNext ==
    \/ \E pdf_path \in ConvertDocs, callback \in BOOLEAN :
          CallConvertPdf(pdf_path, callback)
    \/ ConvertOpen
    \/ \E callback_raises \in BOOLEAN,
          outcome \in {"returns", "raises in the pipeline", "raises at the insertion"} :
          ConvertPage(callback_raises, outcome)
    \/ \E save_raises \in BOOLEAN, callback_raises \in BOOLEAN :
          ConvertFinish(save_raises, callback_raises)
    \/ \E callback_raises \in BOOLEAN : ConvertExcept(callback_raises)
    \/ \E pdf_path \in ConvertDocs, page_num \in 0..MaxPages :
          CallRenderPage(pdf_path, page_num)
    \/ \E raises \in BOOLEAN : RenderOpen(raises)
    \/ \E raises \in BOOLEAN : RenderApply(raises)
    \/ ToggleMetadata

ConvertSpec == ConvertInit /\ [][ConvertNext]_vars

----------------------------------------------------------------------------
(* _compare_versions and the update check on their own.  A version string   *)
(* is the sequence of pieces v.split('.') cuts it into; a piece is a string *)
(* that int() turns into a number or raises ValueError on.                  *)

\* pieces with a leading zero, a sign, two digits, and pieces that are no
\* integer (the empty piece of "1." and of "", and a pre-release tag)
Pieces == {"0", "1", "01", "10", "-1", "", "0-beta"}

\* whether int(x) raises ValueError
int_raises(x) == x \in {"", "0-beta"}

\* int(x)
int(x) ==
    CASE x = "0" -> 0
      [] x = "1" -> 1
      [] x = "01" -> 1
      [] x = "10" -> 10
      [] x = "-1" -> 0 - 1

\* the version strings the comparison is made with
Versions == UNION { [1..n -> Pieces] : n \in 1..MaxParts }

\* a missing component that counts as less than any other
Part_missing_is_least(parts, i) == IF i < Len(parts) THEN int(parts[i + 1]) ELSE 0 - 2

\* `parts[i] if i < len(parts) else 0`, src/pdf2scan.py:738-739
Part(parts, i) == IF i < Len(parts) THEN int(parts[i + 1]) ELSE 0

RECURSIVE CompareLoop(_, _, _)
\* the loop `for i in range(max(len(parts1), len(parts2)))` from i on,
\* src/pdf2scan.py:737-743
CompareLoop(parts1, parts2, i) ==
    IF i >= Max(Len(parts1), Len(parts2)) THEN 0
    ELSE LET p1 == Part(parts1, i)
             p2 == Part(parts2, i)
         IN  IF p1 > p2 THEN 1
             ELSE IF p1 < p2 THEN 0 - 1
             ELSE CompareLoop(parts1, parts2, i + 1)

\* PDF2ScanApp._compare_versions, src/pdf2scan.py:731-746: both lists are
\* built before the loop, and any exception gives 0
compare_versions(v1, v2) ==
    IF \E i \in 1..Len(v1) : int_raises(v1[i]) THEN 0
    ELSE IF \E i \in 1..Len(v2) : int_raises(v2[i]) THEN 0
    ELSE CompareLoop(v1, v2, 0)

\* what the comparison leaves alone
VersionFrame ==
    UNCHANGED <<renderVars, pdf_files, button_state, is_processing, after_queue,
                preview_thread, conversion_thread, reports, processed, selected_indices,
                run, on_disk, held, preview_window>>

\* the call self._compare_versions(latest_version, VERSION), pdf2scan.py:687
CompareVersions ==
    /\ frame.pc = "call"
    /\ returned' = compare_versions(frame.v1, frame.v2)
    /\ frame' = [frame EXCEPT !.pc = "returned"]
    /\ VersionFrame

\* `if ... > 0:` the update notification is posted, pdf2scan.py:687-689
ShowUpdateNotification ==
    /\ frame.pc = "returned"
    /\ returned > 0
    /\ frame' = [frame EXCEPT !.pc = "notified", !.offered = TRUE]
    /\ returned' = returned
    /\ VersionFrame

VersionInit ==
    /\ config = DefaultConfig
    /\ HAS_OPENCV = TRUE
    /\ NoRender
    /\ UiStart
    /\ on_disk = {}
    /\ returned = 0
    /\ held = [alias |-> FALSE, items |-> <<>>]
    /\ \E v1 \in Versions, v2 \in Versions :
          frame = [fn |-> "_compare_versions", pc |-> "call", v1 |-> v1, v2 |-> v2,
                   offered |-> FALSE]
    /\ preview_window = [open |-> FALSE]

VersionNext ==
    \/ CompareVersions
    \/ ShowUpdateNotification

VersionSpec == VersionInit /\ [][VersionNext]_vars

----------------------------------------------------------------------------
(* The PreviewWindow (src/preview_window.py) on its own.  Zoom levels are   *)
(* in thousandths (1.0 is 1000), sizes and offsets in pixels.  The field    *)
(* last_event of preview_window is history: the event handled last.         *)

\* (width, height) of the images shown: a thumbnail, a page at 72 dpi and a
\* poster
PreviewImages == {<<10, 10>>, <<612, 792>>, <<20000, 30000>>}

\* (winfo_width, winfo_height) of the canvas: before it is drawn, with the
\* window made low, and in the 900x700 window
CanvasSizes == {<<1, 1>>, <<880, 99>>, <<880, 620>>}

\* event.x and event.y of the mouse events
MousePositions == {0, 10}

\* a zoom level cut off at max_zoom only
Clamp_above_only(zoom) == Min(max_zoom, zoom)

\* max(self.min_zoom, min(self.max_zoom, zoom)), preview_window.py:163 and 212
Clamp(zoom) == Max(min_zoom, Min(max_zoom, zoom))

\* PreviewWindow._zoom, src/preview_window.py:160-167: the window after it
zoom(w, delta) == [w EXCEPT !.zoom_level = Clamp(w.zoom_level + delta)]

\* what the window leaves alone
PreviewFrame ==
    UNCHANGED <<renderVars, pdf_files, button_state, is_processing, after_queue,
                preview_thread, conversion_thread, reports, processed, selected_indices,
                run, on_disk, returned, held, frame>>

\* the buttons - and +, src/preview_window.py:62 and 81
ZoomIn ==
    /\ preview_window' = [zoom(preview_window, 200) EXCEPT !.last_event = "zoom in"]
    /\ PreviewFrame

ZoomOut ==
    /\ preview_window' = [zoom(preview_window, 0 - 200) EXCEPT !.last_event = "zoom out"]
    /\ PreviewFrame

\* PreviewWindow._on_mousewheel, src/preview_window.py:169-172
OnMousewheel(event_delta) ==
    /\ preview_window' =
          [zoom(preview_window, IF event_delta > 0 THEN 100 ELSE 0 - 100)
             EXCEPT !.last_event = "mouse wheel"]
    /\ PreviewFrame

\* PreviewWindow._on_drag_start, src/preview_window.py:174-178
OnDragStart(x, y) ==
    /\ preview_window' = [preview_window EXCEPT !.drag_start_x = x, !.drag_start_y = y,
                                                !.last_event = "drag start"]
    /\ PreviewFrame

\* PreviewWindow._on_drag_motion, src/preview_window.py:180-191
OnDragMotion(x, y) ==
    /\ LET dx == x - preview_window.drag_start_x
           dy == y - preview_window.drag_start_y
       IN  /\ Abs(preview_window.pan_x + dx) <= 10 * MaxPan
           /\ Abs(preview_window.pan_y + dy) <= 10 * MaxPan
           /\ preview_window' = [preview_window EXCEPT !.pan_x = @ + dx, !.pan_y = @ + dy,
                                                       !.drag_start_x = x,
                                                       !.drag_start_y = y,
                                                       !.last_event = "drag"]
    /\ PreviewFrame

\* PreviewWindow._reset_zoom, src/preview_window.py:193-198
ResetZoom ==
    /\ preview_window' = [preview_window EXCEPT !.zoom_level = 1000, !.pan_x = 0,
                                                !.pan_y = 0, !.last_event = "100%"]
    /\ PreviewFrame

\* PreviewWindow._fit_to_window, src/preview_window.py:200-217: nothing is
\* done on a canvas less than 100 pixels wide or high
FitToWindow ==
    /\ IF preview_window.canvas_width < 100 \/ preview_window.canvas_height < 100
         THEN preview_window' = [preview_window EXCEPT !.last_event = "fit"]
         ELSE LET width_ratio == ((preview_window.canvas_width - 40) * 1000)
                                    \div preview_window.original_image[1]
                  height_ratio == ((preview_window.canvas_height - 40) * 1000)
                                    \div preview_window.original_image[2]
              IN  preview_window' =
                     [preview_window EXCEPT !.zoom_level = Clamp(Min(width_ratio, height_ratio)),
                                            !.pan_x = 0, !.pan_y = 0, !.last_event = "fit"]
    /\ PreviewFrame

\* the user resizes the window, or the window is drawn for the first time
Configure(size) ==
    /\ <<preview_window.canvas_width, preview_window.canvas_height>> # size
    /\ preview_window' = [preview_window EXCEPT !.canvas_width = size[1],
                                                !.canvas_height = size[2],
                                                !.last_event = "configure"]
    /\ PreviewFrame

\* PreviewWindow.__init__, src/preview_window.py:12-38
PreviewInit ==
    /\ config = DefaultConfig
    /\ HAS_OPENCV = TRUE
    /\ NoRender
    /\ UiStart
    /\ on_disk = {}
    /\ returned = "-"
    /\ held = [alias |-> FALSE, items |-> <<>>]
    /\ frame = [pc |-> "none"]
    /\ \E original_image \in PreviewImages :
          preview_window = [open |-> TRUE, original_image |-> original_image,
                            zoom_level |-> 1000, pan_x |-> 0, pan_y |-> 0,
                            drag_start_x |-> 0, drag_start_y |-> 0,
                            canvas_width |-> 1, canvas_height |-> 1,
                            last_event |-> "init"]

PreviewNext ==
    \/ ZoomIn
    \/ ZoomOut
    \/ \E event_delta \in {0 - 120, 120} : OnMousewheel(event_delta)
    \/ \E x \in MousePositions, y \in MousePositions : OnDragStart(x, y)
    \/ \E x \in MousePositions, y \in MousePositions : OnDragMotion(x, y)
    \/ ResetZoom
    \/ FitToWindow
    \/ \E size \in CanvasSizes : Configure(size)

PreviewSpec == PreviewInit /\ [][PreviewNext]_vars

----------------------------------------------------------------------------
(* apply_black_and_white on its own, applied to small grey rasters *)

\* grey levels of the rasters: the ends of the range, neighbours and a gap
GrayLevels == {0, 1, 2, 7, 128, 255}

\* rasters of NGray grey pixels, darkest first
GrayInputs ==
    { [w |-> NGray, h |-> 1, px |-> GrayToRGB(g)] :
        g \in {f \in [1..NGray -> GrayLevels] : \A i \in 1..(NGray - 1) : f[i] <= f[i + 1]} }

OtsuInit ==
    /\ config = [Uniform(0, 0) EXCEPT !.black_and_white = TRUE]
    /\ HAS_OPENCV \in BOOLEAN
    /\ pc = "apply_black_and_white"
    /\ arg \in GrayInputs
    /\ image = arg
    /\ width = arg.w
    /\ height = arg.h
    /\ scale_factor = One
    /\ ran = <<>>
    /\ bw_at_call = TRUE
    /\ toggles = 0
    /\ AppStart

OtsuNext == BlackAndWhite

OtsuSpec == OtsuInit /\ [][OtsuNext]_vars

----------------------------------------------------------------------------
(* Properties *)

\* statements that follow the two tone statements
AfterTone ==
    {"apply_warp", "apply_lighting", "apply_wrinkles", "apply_paper_texture",
     "apply_shadows", "apply_page_edge", "apply_noise", "upscale", "returned"}

\* the stages gated by an intensity, and the intensity each one reads
GatedStages ==
    {"apply_warp", "apply_lighting", "apply_wrinkles", "apply_paper_texture",
     "apply_shadows", "apply_page_edge", "apply_noise"}

Intensity(stage) ==
    CASE stage = "apply_warp" -> config.warp
      [] stage = "apply_lighting" -> config.lighting
      [] stage = "apply_wrinkles" -> config.wrinkles
      [] stage = "apply_paper_texture" -> config.paper_texture
      [] stage = "apply_shadows" -> config.shadows
      [] stage = "apply_page_edge" -> config.page_edge
      [] stage = "apply_noise" -> config.noise

\* position of a stage in the order tone, warp, lighting, wrinkles, paper
\* texture, shadows, page-edge, noise
StageRank(stage) ==
    CASE stage \in {"apply_paper_color", "apply_black_and_white"} -> 1
      [] stage = "apply_warp" -> 2
      [] stage = "apply_lighting" -> 3
      [] stage = "apply_wrinkles" -> 4
      [] stage = "apply_paper_texture" -> 5
      [] stage = "apply_shadows" -> 6
      [] stage = "apply_page_edge" -> 7
      [] stage = "apply_noise" -> 8

\* C1: the stages of a render run in the order tone, warp, lighting,
\* wrinkles, paper texture, shadows, page-edge, noise; no stage runs twice,
\* none runs before a stage that precedes it, and nothing runs after noise.
C1_FixedStageOrder ==
    \A i, j \in 1..Len(ran) :
        i < j => /\ ran[i] # ran[j]
                 /\ StageRank(ran[i]) <= StageRank(ran[j])
                 /\ ran[i] # "apply_noise"

\* a render that ran a tone stage and all seven gated stages has returned
C1_Witness == pc = "returned" /\ Len(ran) = 8 /\ ran[8] = "apply_noise"

\* C2: in every render exactly one of apply_paper_color and
\* apply_black_and_white runs, binarization exactly when black_and_white was
\* set for the render.
C2_ExactlyOneTone ==
    pc \in AfterTone =>
        /\ ("apply_paper_color" \in Range(ran)) # ("apply_black_and_white" \in Range(ran))
        /\ ("apply_black_and_white" \in Range(ran)) = bw_at_call

\* every stage function called directly on raster im with intensity x
\* returns im, whatever the random draws
DirectIdentity(im, x) ==
    /\ \A blend \in BOOLEAN : apply_warp(im, x, blend) = im
    /\ \A norm_dist \in NormDistDraws : apply_lighting(im, x, norm_dist) = im
    /\ \A strength \in StrengthDraws, hits \in HitDraws : apply_wrinkles(im, x, strength, hits) = im
    /\ \A grain \in GrainDraws(im) : apply_paper_texture(im, x, grain) = im
    /\ \A at_corner \in BOOLEAN : apply_shadows(im, x, config.tilt_randomness, at_corner) = im
    /\ \A u \in TiltDraws, jitter \in JitterDraws, alpha \in AlphaDraws, dark \in BOOLEAN :
          apply_page_edge(im, x, config.tilt_randomness, u, jitter, alpha, dark) = im
    /\ \A sigmas \in SigmaDraws : apply_noise(im, x, sigmas) = im

\* C3: with an intensity below 0.01 a stage is an identity: the stage
\* function returns the raster it is given, and the statement of
\* apply_scan_effects that guards the stage neither calls it nor changes
\* the raster.
C3_IdentityBelowEpsilon ==
    [][ /\ \A x \in {0, 5, Epsilon - 1} : DirectIdentity(image, x)
        /\ \A stage \in GatedStages :
              (pc = stage /\ pc' # stage /\ Intensity(stage) < Epsilon)
                  => (image' = image /\ ran' = ran) ]_vars

\* a render of a real raster returned with every gated stage set to 0.005
\* and only the tone stage called
C3_Witness ==
    /\ pc = "returned"
    /\ \A stage \in GatedStages : Intensity(stage) = 5
    /\ Len(ran) = 1
    /\ image.w >= 1

\* C4: every channel of every pixel of the working raster, after every
\* stage and in the returned raster, lies in 0..255.
C4_ChannelBounds ==
    \A i \in 1..Len(image.px) : \A c \in 1..3 :
        image.px[i][c] >= 0 /\ image.px[i][c] <= 255

\* the lighting stage has just pushed a bright pixel to the clip at 255
C4_Witness ==
    /\ pc = "apply_wrinkles"
    /\ ran # <<>> /\ ran[Len(ran)] = "apply_lighting"
    /\ \E i \in 1..Len(image.px) : image.px[i][1] = 255

\* C5: a stage statement other than the page-edge one leaves the width and
\* the height of the raster as they were.
C5_OnlyPageEdgeResizes ==
    [][ \A stage \in Range(StageOrder) \ {"apply_page_edge"} :
            (pc = stage /\ pc' # stage) => (image'.w = image.w /\ image'.h = image.h) ]_vars

\* page-edge enlarged a non-square raster that paper texture and shadows
\* had left at the size of the working buffer
C5_Witness ==
    /\ pc = "apply_noise"
    /\ {"apply_paper_texture", "apply_shadows", "apply_page_edge"} \subseteq Range(ran)
    /\ width # height
    /\ image.w > width /\ image.h > height

\* what apply_page_edge can return for the raster and configuration at hand
PageEdgeResults ==
    { apply_page_edge(image, config.page_edge, config.tilt_randomness, u, jitter, alpha, dark) :
        u \in TiltDraws, jitter \in JitterDraws, alpha \in AlphaDraws, dark \in BOOLEAN }

\* C6 as stated: whenever the page_edge intensity is at or above the gate
\* threshold apply_page_edge returns a raster larger in both dimensions.
C6_AlwaysGrows ==
    (pc = "apply_page_edge" /\ config.page_edge >= Epsilon) =>
        \A out \in PageEdgeResults : out.w > image.w /\ out.h > image.h

\* C6 amended: when the page_edge intensity is at or above the threshold
\* and border_base is at least 5, apply_page_edge returns a raster wider by
\* border_left + border_right and higher by border_top + border_bottom with
\* every border at least 5; when border_base is below 5 it returns its input.
C6_GrowsWhenBorderFits ==
    (pc = "apply_page_edge" /\ config.page_edge >= Epsilon) =>
        IF border_base(image, config.page_edge) >= MinBorder
          THEN \A u \in TiltDraws, jitter \in JitterDraws, alpha \in AlphaDraws, dark \in BOOLEAN :
                  LET out == apply_page_edge(image, config.page_edge, config.tilt_randomness,
                                             u, jitter, alpha, dark)
                      b == Borders(image, config.page_edge, config.tilt_randomness, u, jitter)
                  IN  /\ out.w = image.w + b[3] + b[4]
                      /\ out.h = image.h + b[1] + b[2]
                      /\ \A k \in 1..4 : b[k] >= MinBorder
                      /\ out.w > image.w /\ out.h > image.h
          ELSE PageEdgeResults = {image}

\* page-edge ran with jittered borders and enlarged the raster
C6_Witness ==
    /\ pc = "apply_noise"
    /\ "apply_page_edge" \in Range(ran)
    /\ config.tilt_randomness > 0
    /\ image.w > width /\ image.h > height

\* C7: for an input whose larger dimension exceeds 2200 the returned raster
\* has the width and height of the input to within 1 unit.
C7_RoundTripWithinOne ==
    (pc = "returned" /\ Max(arg.w, arg.h) > max_dim) =>
        (Abs(image.w - arg.w) <= 1 /\ Abs(image.h - arg.h) <= 1)

\* C8: when page-edge enlarged the downscaled working raster, the final
\* upscale returns the bordered working size divided by the scale factor.
C8_BorderScaledWithContent ==
    [][ (/\ pc = "upscale" /\ pc' = "returned"
         /\ scale_factor # One
         /\ image.w > width /\ image.h > height)
            => (/\ image'.w = IntDiv(image.w, scale_factor)
                /\ image'.h = IntDiv(image.h, scale_factor)) ]_vars

\* C9: apply_scan_effects never raises, and the raster it returns is at
\* least as wide and as high as its input.
C9_TotalAndNotSmaller ==
    /\ pc # "raised"
    /\ pc = "returned" => (image.w >= arg.w /\ image.h >= arg.h)

\* the grey levels of the sample of a raster
Levels(im) == {Luma(im.px[i]) : i \in 1..Len(im.px)}

\* C10: the raster apply_black_and_white has just produced has at most two
\* luminance levels, three equal channels at every pixel, and the width
\* and height of the raster it was given, with and without OpenCV.
C10_BinarizedRaster ==
    (pc = "apply_warp" /\ ran # <<>> /\ ran[Len(ran)] = "apply_black_and_white") =>
        /\ Cardinality(Levels(image)) <= 2
        /\ \A i \in 1..Len(image.px) :
              image.px[i][1] = image.px[i][2] /\ image.px[i][2] = image.px[i][3]
        /\ image.w = width /\ image.h = height

\* binarization on the OpenCV path produced a black-and-white raster from a
\* downscaled page
C10_Witness ==
    /\ pc = "apply_warp" /\ ran = <<"apply_black_and_white">>
    /\ HAS_OPENCV
    /\ scale_factor # One
    /\ Levels(image) = {0, 255}

\* intensities a slider can be set to, in thousandths: 0, the gate, a
\* middle value and the maximum (src/config.py:67-79)
SliderStops == {0, Epsilon, 300, 1000}

\* C11: without OpenCV apply_warp returns the raster it is given for every
\* intensity and every random draw, and the warp statement of
\* apply_scan_effects hands the unchanged raster to the lighting statement.
C11_WarpFallbackIdentity ==
    [][ ~HAS_OPENCV =>
          /\ \A x \in SliderStops \cup {config.warp} : \A blend \in BOOLEAN :
                apply_warp(image, x, blend) = image
          /\ (pc = "apply_warp" /\ pc' # "apply_warp")
                => (image' = image /\ pc' = "apply_lighting") ]_vars

\* a render without OpenCV called apply_warp at full intensity on a raster
\* whose sampled pixels differ, and went on through the noise stage to return
C11_Witness ==
    /\ pc = "returned"
    /\ ~HAS_OPENCV
    /\ config.warp = 1000
    /\ "apply_warp" \in Range(ran) /\ "apply_noise" \in Range(ran)
    /\ \E i, j \in 1..Len(arg.px) : arg.px[i] # arg.px[j]

\* floor(min(width, height) * 0.08 * 0.5)
HalfBorderBase(im) == (Min(im.w, im.h) * 4) \div 100

\* C12 as stated: with page_edge = 0.5 and tilt_randomness = 0 the raster
\* apply_page_edge returns is wider and higher than its input by
\* 2 * floor(min(width, height) * 0.08 * 0.5), for every random draw.
C12_EqualBordersAlways ==
    (pc = "apply_page_edge" /\ config.page_edge = 500 /\ config.tilt_randomness = 0) =>
        \A out \in PageEdgeResults :
            /\ out.w = image.w + 2 * HalfBorderBase(image)
            /\ out.h = image.h + 2 * HalfBorderBase(image)

\* C12 amended: with page_edge = 0.5 and tilt_randomness = 0, when
\* floor(min(width, height) * 0.08 * 0.5) is at least 5 the four borders
\* equal it for every random draw and the output is wider and higher by
\* twice that; when it is below 5 apply_page_edge returns its input.
C12_EqualBordersWhenBorderFits ==
    (pc = "apply_page_edge" /\ config.page_edge = 500 /\ config.tilt_randomness = 0) =>
        IF HalfBorderBase(image) >= MinBorder
          THEN \A u \in TiltDraws, jitter \in JitterDraws, alpha \in AlphaDraws, dark \in BOOLEAN :
                  LET out == apply_page_edge(image, 500, 0, u, jitter, alpha, dark)
                      b == Borders(image, 500, 0, u, jitter)
                  IN  /\ \A k \in 1..4 : b[k] = HalfBorderBase(image)
                      /\ out.w = image.w + 2 * HalfBorderBase(image)
                      /\ out.h = image.h + 2 * HalfBorderBase(image)
          ELSE PageEdgeResults = {image}

\* page-edge ran with page_edge = 0.5 and no tilt and put the same border
\* of at least 5 on each side of the working raster
C12_Witness ==
    /\ pc = "apply_noise"
    /\ config.page_edge = 500 /\ config.tilt_randomness = 0
    /\ "apply_page_edge" \in Range(ran)
    /\ HalfBorderBase([w |-> width, h |-> height]) >= MinBorder
    /\ image.w = width + 2 * HalfBorderBase([w |-> width, h |-> height])
    /\ image.h = height + 2 * HalfBorderBase([w |-> width, h |-> height])

\* C13: a 3000x4000 raster rendered with every stage intensity at 0 and
\* black_and_white off (and left off) goes through the tint stage only and
\* comes back as a 3000x4000 raster.
C13_TintOnlySameSize ==
    (/\ pc = "returned"
     /\ arg.w = 3000 /\ arg.h = 4000
     /\ \A stage \in GatedStages : Intensity(stage) = 0
     /\ ~bw_at_call /\ toggles = 0)
        => (/\ ran = <<"apply_paper_color">>
            /\ image.w = 3000 /\ image.h = 4000)

\* threads that are inside apply_scan_effects
Rendering ==
    {<<"preview_thread", t>> : t \in {u \in 1..MaxPreviews : preview_thread[u] = "apply_scan_effects"}}
      \cup (IF conversion_thread.pc = "apply_scan_effects" THEN {<<"conversion_thread", 0>>} ELSE {})

\* C14: at no time are two threads (a preview thread and the conversion
\* thread, or two preview threads) inside apply_scan_effects.
C14_RendersSerialized == Cardinality(Rendering) <= 1

\* C15: while a run of apply_scan_effects is between its call and its
\* return no field of the EffectConfig it reads changes.
C15_ConfigFixedDuringRender ==
    [][ (pc \in (Range(StageOrder) \cup {"upscale"})) => (config' = config) ]_vars

\* the last element of a non-empty sequence
Last(seq) == seq[Len(seq)]

\* C16 as stated: convert_pdf puts the pages in the output one at a time in
\* increasing index, posts the report (k, total) of page k after page k has
\* been processed, and ends a successful conversion with (total, total).
C16_ReportAfterPage ==
    [][ /\ (processed' # processed /\ processed' # <<>>)
            => processed' = Append(processed, Len(processed))
        /\ (reports' # reports /\ reports' # <<>>) =>
              /\ Last(reports').message = "Processing" =>
                    /\ Last(reports').total = conversion_thread.total_pages
                    /\ Last(reports').current - 1 \in Range(processed')
              /\ Len(processed') = conversion_thread.total_pages =>
                    /\ Last(reports').current = Len(processed')
                    /\ Last(reports').total = Len(processed') ]_vars

\* C16 amended: convert_pdf puts the pages in the output one at a time in
\* increasing index, posts the report (k, total) of page k before page k is
\* processed, when exactly the k - 1 pages before it have been, and ends a
\* successful conversion with the report (total, total).
C16_ReportBeforePage ==
    [][ /\ (processed' # processed /\ processed' # <<>>)
            => processed' = Append(processed, Len(processed))
        /\ (reports' # reports /\ reports' # <<>>) =>
              /\ Last(reports').message = "Processing" =>
                    /\ Last(reports').total = conversion_thread.total_pages
                    /\ Last(reports').current = Len(processed') + 1
                    /\ processed' = processed
              /\ Len(processed') = conversion_thread.total_pages =>
                    /\ Last(reports').message = "Completed"
                    /\ Last(reports').current = Len(processed')
                    /\ Last(reports').total = Len(processed') ]_vars

\* convert_pdf has converted the longest document: one report per page and
\* the completion report, every page in the output
C16_Witness ==
    /\ conversion_thread.pc = "next_file"
    /\ Len(processed) = MaxPages
    /\ Len(reports) = MaxPages + 1
    /\ Last(reports) = CompletedReport(MaxPages)
    /\ reports[1] = [current |-> 1, total |-> MaxPages, message |-> "Processing"]

\* C17: apply_scan_effects downscales exactly when max(width, height)
\* exceeds 2200, and the downscaled size int(width * scale_factor) x
\* int(height * scale_factor) has its larger side at most 2200 and both
\* sides at least 1; it is the size of the working raster.
C17_DownscaleCap ==
    pc # "idle" =>
        /\ (scale_factor # One) = (Max(arg.w, arg.h) > max_dim)
        /\ scale_factor # One =>
              /\ Max(IntMul(arg.w, scale_factor), IntMul(arg.h, scale_factor)) <= max_dim
              /\ IntMul(arg.w, scale_factor) >= 1
              /\ IntMul(arg.h, scale_factor) >= 1
              /\ width = IntMul(arg.w, scale_factor)
              /\ height = IntMul(arg.h, scale_factor)

\* the grey levels of the sampled pixels of a raster, in order
GrayOf(im) == [i \in 1..Len(im.px) |-> Luma(im.px[i])]

\* the between-class variance at level i of the grey pixels gray,
\* weightBackground * weightForeground * (meanBackground - meanForeground)^2,
\* as a fraction; the background is the pixels at or below i
ClassVariance(gray, i) ==
    LET RECURSIVE Sum(_)
        Sum(S) == IF S = {} THEN 0
                  ELSE LET k == CHOOSE k \in S : TRUE IN gray[k] + Sum(S \ {k})
        bg == {k \in 1..Len(gray) : gray[k] <= i}
        fg == {k \in 1..Len(gray) : gray[k] > i}
        dd == Sum(bg) * Cardinality(fg) - Sum(fg) * Cardinality(bg)
    IN  [num |-> dd * dd, den |-> Cardinality(bg) * Cardinality(fg)]

\* the smallest level that maximizes the between-class variance over the
\* levels with both classes non-empty; 0 when there is no such level
SmallestMaximiser(gray) ==
    LET splits == {i \in 0..255 : /\ \E k \in 1..Len(gray) : gray[k] <= i
                                  /\ \E k \in 1..Len(gray) : gray[k] > i}
        v(i) == ClassVariance(gray, i)
        \* every split has the variance of the split at the nearest grey
        \* level of the raster at or below it
        best == CHOOSE i \in splits \cap Range(gray) :
                    \A j \in splits \cap Range(gray) : v(i).num * v(j).den >= v(j).num * v(i).den
    IN  IF splits = {} THEN 0
        ELSE CHOOSE i \in splits :
                /\ v(i).num * v(best).den = v(best).num * v(i).den
                /\ \A j \in splits :
                      (v(j).num * v(best).den = v(best).num * v(j).den) => i <= j

\* C18: without OpenCV, apply_black_and_white sets to white exactly the
\* pixels above the smallest level that maximizes the between-class
\* variance (above 0 for a raster with a single grey level, whose output
\* is uniform).
C18_SmallestMaximiser ==
    [][ (pc = "apply_black_and_white" /\ pc' # pc /\ config.black_and_white /\ ~HAS_OPENCV) =>
            LET gray == GrayOf(image)
                threshold == SmallestMaximiser(gray)
            IN  /\ image'.px = GrayToRGB([i \in 1..Len(gray) |-> Binarize(gray[i], threshold)])
                /\ Cardinality(Range(gray)) = 1 =>
                      (threshold = 0 /\ Cardinality(Range(image'.px)) = 1) ]_vars

\* C19: for every intensity in [0, 1] and every random draw the shading
\* masks of apply_wrinkles (after any number of creases over one pixel) and
\* of apply_shadows (top band, left band and corner region together) are
\* above 0 and at most 1, and the wrinkle and shadow statements brighten no
\* channel of any pixel.
C19_ShadingMasksInUnitRange ==
    [][ /\ pc = "apply_wrinkles" =>
              \A x \in SliderStops \cup {config.wrinkles} :
                  \A strength \in StrengthDraws, hits \in 0..MaxCreaseHits :
                      /\ CreaseMask((x * strength) \div 1000, hits) > 0
                      /\ CreaseMask((x * strength) \div 1000, hits) <= 1000
        /\ pc = "apply_shadows" =>
              \A x \in SliderStops \cup {config.shadows} :
                  CornerShadow(image, x) > 0 /\ CornerShadow(image, x) <= 1000
        /\ (pc \in {"apply_wrinkles", "apply_shadows"} /\ pc' # pc) =>
              \A i \in 1..Len(image.px) : \A c \in 1..3 : image'.px[i][c] <= image.px[i][c] ]_vars

\* wrinkles and shadows at full intensity have darkened a white pixel of
\* the input to less than an eighth of its value without blanking it
C19_Witness ==
    /\ pc = "apply_page_edge"
    /\ {"apply_wrinkles", "apply_shadows"} \subseteq Range(ran)
    /\ config.wrinkles = 1000 /\ config.shadows = 1000
    /\ arg.px[1] = <<255, 255, 255>>
    /\ image.px[1][1] > 0 /\ image.px[1][1] <= 30

\* C20: the raster apply_page_edge returns holds every pixel of the page it
\* was given, unchanged; the bed and the drop shadow change border pixels
\* only.
C20_PageUnchangedUnderShadow ==
    [][ (pc = "apply_page_edge" /\ pc' # pc /\ image'.w > image.w) =>
            SubSeq(image'.px, 1, Len(image.px)) = image.px ]_vars

\* the positions of a path in a list
Positions(files, filepath) == {i \in 1..Len(files) : files[i] = filepath}

\* paths that are in both lists are in the same order in both
SameOrder(before, after) ==
    \A i1, j1 \in 1..Len(before), i2, j2 \in 1..Len(after) :
        (before[i1] = after[i2] /\ before[j1] = after[j2] /\ i1 < j1) => i2 < j2

\* C21: the queue never holds a path twice, holds only paths whose suffix is
\* .pdf in any case and that existed when they were added, and keeps the
\* order of insertion; add_pdf returns True exactly when it appended the
\* path and changes nothing when it returns False; a change to the list
\* get_queue returned does not change the queue
C21_QueueInvariants ==
    /\ [](/\ \A filepath \in Range(pdf_files) : Cardinality(Positions(pdf_files, filepath)) = 1
          /\ \A filepath \in Range(pdf_files) : endswith_pdf(filepath))
    /\ [][ /\ \A filepath \in Range(pdf_files') \ Range(pdf_files) :
                 filepath \in on_disk /\ pdf_files' = Append(pdf_files, filepath)
           /\ SameOrder(pdf_files, pdf_files')
           /\ \A filepath \in QueuePaths :
                 AddPdf(filepath) =>
                   /\ (returned' = "True") <=> (pdf_files' = Append(pdf_files, filepath))
                   /\ (returned' = "False") <=> (pdf_files' = pdf_files)
           /\ (held' # held /\ returned' = returned /\ returned = "list") =>
                 (pdf_files' = pdf_files) ]_vars

\* the queue holds two documents, one with its suffix in capitals and one
\* that has since been deleted, the last add_pdf was refused, and the
\* caller has changed the list it got from get_queue
C21_Witness ==
    /\ Len(pdf_files) = 2
    /\ Upper \in Range(pdf_files)
    /\ \E filepath \in Range(pdf_files) : filepath \notin on_disk
    /\ held.items # pdf_files
    /\ Len(held.items) = 1

RECURSIVE Unselected(_, _, _)
\* the files of a list whose index (from k on) is not in the selection
Unselected(files, k, selection) ==
    IF files = <<>> THEN <<>>
    ELSE (IF k \in selection THEN <<>> ELSE <<Head(files)>>)
           \o Unselected(Tail(files), k + 1, selection)

\* C22: a click on Remove takes the files selected in the queue list out of
\* the queue and leaves every file that is not selected
C22_RemoveTakesSelection ==
    [][ RemoveSelected => (pdf_files' = Unselected(pdf_files, 0, selected_indices)) ]_vars

\* the number of the first free output name of a document: 1 stands for
\* <base>_scanned.pdf, k >= 2 for <base>_scanned<k>.pdf
SmallestFree(output_dir, base_name) ==
    CHOOSE k \in 1..9 :
        /\ OutputName(output_dir, base_name, k) \notin on_disk
        /\ \A j \in 1..(k - 1) : OutputName(output_dir, base_name, j) \in on_disk

\* C23: the output path convert_pdf chooses does not exist when it is
\* chosen and is <base>_scanned.pdf if that is free, else <base>_scanned<k>.pdf
\* for the smallest free k >= 2; no save of a run of conversions replaces a
\* file that was there, also when documents share their base name
C23_UniqueOutputPath ==
    /\ [][ (frame.pc = "open" /\ frame'.pc = "page") =>
             /\ frame'.output_path \notin on_disk
             /\ frame'.output_path =
                   OutputName(frame.output_dir, frame.pdf_path.stem,
                              SmallestFree(frame.output_dir, frame.pdf_path.stem)) ]_vars
    /\ [](frame.pc # "none" => ~frame.saved.overwrote)

\* the second document named a.pdf has been saved as a_scanned3.pdf, next
\* to the a_scanned.pdf that was there and the a_scanned2.pdf of the first
C23_Witness ==
    /\ frame.pc = "returned"
    /\ returned = "True"
    /\ frame.pdf_path = Twin
    /\ frame.saved.path = OutputName("in", <<"a">>, 3)
    /\ OutputName("in", <<"a">>, 2) \in on_disk

\* C24: convert_pdf never raises; it returns True only once the output has
\* been saved, returns False and writes nothing for a document without
\* pages, and returns False after an exception; render_page returns None
\* for a page number past the end and after an exception
C24_NeverRaises ==
    /\ returned # "raised"
    /\ (frame.pc = "returned" /\ frame.fn = "convert_pdf") =>
          /\ returned \in {"True", "False"}
          /\ (returned = "True") =>
                (frame.saved.path = frame.output_path /\ frame.output_path \in on_disk)
          /\ (exists(frame.pdf_path) /\ PageCount(frame.pdf_path) = 0) =>
                (returned = "False" /\ frame.saved = NotSaved)
    /\ (frame.pc = "returned" /\ frame.fn = "render_page") =>
          /\ returned \in {"None", "image"}
          /\ (exists(frame.pdf_path) /\ frame.page_num >= PageCount(frame.pdf_path)) =>
                returned = "None"

\* C27: when convert_pdf or render_page returns, every document handle it
\* opened (doc, output_doc, img_doc) has been closed
C27_HandlesClosed ==
    frame.pc = "returned" => frame.open = {}

\* C30: the metadata of a saved output document is empty when
\* config.blank_metadata is true and that of the input document when it is
\* false; apply_scan_effects reads neither blank_metadata nor jpg_quality;
\* jpg_quality is read by the encoding of a page only, and every page of the
\* output is encoded at it
C30_MetadataAndQuality ==
    /\ [][ (frame.pc = "finish" /\ on_disk' # on_disk) =>
             frame'.saved.metadata = IF config.blank_metadata
                                       THEN [k \in DOMAIN NewDocMetadata |-> ""]
                                       ELSE Metadata(frame.pdf_path) ]_vars
    /\ [](frame.pc # "none" =>
            /\ \A r \in frame.reads :
                  r[2] \in {"blank_metadata", "jpg_quality"} => r[1] = "convert_pdf"
            /\ (<<"convert_pdf", "jpg_quality">> \in frame.reads) <=>
                  (frame.pages # <<>> \/ "img_doc" \in frame.open)
            /\ \A i \in 1..Len(frame.pages) : frame.pages[i].quality = config.jpg_quality)

\* a document of two pages has been saved with the metadata of its input
C30_Witness ==
    /\ frame.pc = "returned"
    /\ returned = "True"
    /\ Len(frame.saved.pages) = 2
    /\ frame.saved.metadata = Metadata(frame.pdf_path)
    /\ ~config.blank_metadata

\* the conversion thread is leaving its loop over the queue
RunEnds ==
    conversion_thread.pc = "next_file" /\ conversion_thread.idx >= Len(pdf_files)

C26_RunConvertsQueueAtStart ==
    /\ [][is_processing => (pdf_files' = pdf_files)]_vars
    /\ [](RunEnds => /\ run.attempted = run.queue
                      /\ conversion_thread.total_files = Len(run.attempted))

\* whether every piece of a version string is an integer
AllIntegers(v) == \A i \in 1..Len(v) : ~int_raises(v[i])

\* the i-th component (from 1) of a version string padded with zeros
Component(v, i) == IF i <= Len(v) THEN int(v[i]) ELSE 0

\* the order of two version strings of integers: 1, -1 or 0 as the first
\* is greater than, less than or equal to the second, component by
\* component from the left
VersionOrder(v1, v2) ==
    LET n == Max(Len(v1), Len(v2))
        differ == {i \in 1..n : Component(v1, i) # Component(v2, i)}
    IN  IF differ = {} THEN 0
        ELSE LET d == CHOOSE i \in differ : \A j \in differ : i <= j
             IN  IF Component(v1, d) > Component(v2, d) THEN 1 ELSE 0 - 1

\* C28: on version strings of integers _compare_versions returns 1, -1 or 0
\* as v1 is greater than, less than or equal to v2, a missing component
\* counting as 0; compare(a, b) = -compare(b, a); the result is 0 when a
\* piece of either string is no integer; an update is offered only when
\* the result is 1
C28_CompareVersions ==
    /\ frame.pc \in {"returned", "notified"} =>
          /\ (AllIntegers(frame.v1) /\ AllIntegers(frame.v2)) =>
                returned = VersionOrder(frame.v1, frame.v2)
          /\ returned = 0 - compare_versions(frame.v2, frame.v1)
          /\ (~AllIntegers(frame.v1) \/ ~AllIntegers(frame.v2)) => returned = 0
    /\ frame.offered => returned = 1

\* "1" has been compared with "1.0" and found equal
C28_Witness ==
    /\ frame.pc = "returned"
    /\ frame.v1 = <<"1">>
    /\ frame.v2 = <<"1", "0">>
    /\ returned = 0

\* the events that zoom
ZoomEvents == {"zoom in", "zoom out", "mouse wheel"}

\* C29 as stated: zoom_level stays within [min_zoom, max_zoom]; Fit and
\* 100% set pan_x and pan_y to 0, 100% sets zoom_level to 1.0; the zoom
\* actions leave pan_x and pan_y as they are
C29_ZoomAndPan ==
    /\ [](/\ min_zoom <= preview_window.zoom_level
          /\ preview_window.zoom_level <= max_zoom
          /\ preview_window.last_event \in {"fit", "100%"} =>
                (preview_window.pan_x = 0 /\ preview_window.pan_y = 0)
          /\ preview_window.last_event = "100%" => preview_window.zoom_level = 1000)
    /\ [][ preview_window'.last_event \in ZoomEvents =>
             /\ preview_window'.pan_x = preview_window.pan_x
             /\ preview_window'.pan_y = preview_window.pan_y ]_vars

\* C29, amended: as stated, except that Fit sets pan_x and pan_y to 0 only
\* on a canvas at least 100 pixels wide and high, and changes neither the
\* zoom level nor the offsets on a smaller one
C29_ZoomAndPanOnDrawnCanvas ==
    /\ [](/\ min_zoom <= preview_window.zoom_level
          /\ preview_window.zoom_level <= max_zoom
          /\ (\/ preview_window.last_event = "100%"
              \/ /\ preview_window.last_event = "fit"
                 /\ preview_window.canvas_width >= 100
                 /\ preview_window.canvas_height >= 100) =>
                (preview_window.pan_x = 0 /\ preview_window.pan_y = 0)
          /\ preview_window.last_event = "100%" => preview_window.zoom_level = 1000)
    /\ [][ /\ preview_window'.last_event \in ZoomEvents =>
               /\ preview_window'.pan_x = preview_window.pan_x
               /\ preview_window'.pan_y = preview_window.pan_y
           /\ (/\ preview_window'.last_event = "fit"
               /\ (preview_window.canvas_width < 100 \/ preview_window.canvas_height < 100)) =>
                 /\ preview_window'.zoom_level = preview_window.zoom_level
                 /\ preview_window'.pan_x = preview_window.pan_x
                 /\ preview_window'.pan_y = preview_window.pan_y ]_vars

\* Fit on the drawn canvas has brought the poster to the smallest zoom
\* level, with the offsets at 0
C29_Witness ==
    /\ preview_window.last_event = "fit"
    /\ preview_window.canvas_width >= 100 /\ preview_window.canvas_height >= 100
    /\ preview_window.original_image = <<20000, 30000>>
    /\ preview_window.zoom_level = min_zoom
    /\ preview_window.drag_start_x # 0
    /\ preview_window.pan_x = 0 /\ preview_window.pan_y = 0

====
